---- MODULE Spec2Model ----
(***************************************************************************)
(* The call session bridge of kimkofoed/heino: one telephony (Twilio)      *)
(* media-stream socket `conn` bridged to one realtime speech socket        *)
(* `openAiWs`.  The repository holds several variants of the bridge:       *)
(*   "A"  src/index.js lines 1-330    (watchdog, greeting, farewell)       *)
(*   "B"  src/index.js lines 332-585  (greeting 300 ms after socket open)  *)
(*   "P"  src/unnamed/part_000        (server VAD, no greeting)            *)
(*   "D"  src/index.js lines 897-1189 (heartbeat, deferred audio sends)    *)
(* Time is in milliseconds.  A timer is a record of the pending-timer set; *)
(* it fires when its remaining time is 0, and time cannot pass a due timer.*)
(***************************************************************************)
EXTENDS Integers, Sequences, FiniteSets, TLC

VARIABLES
    variant,      \* which variant of the bridge this connection runs
    session,      \* the session object of the connection
    openAiWs,     \* readyState of the speech-service socket
    conn,         \* readyState of the telephony socket
    timers,       \* pending setTimeout timers
    sentAi,       \* the messages written to the speech socket, in order
    sentConn,     \* the messages written to the telephony socket, in order
    sessions,     \* the registry: ids of the registered sessions
    pipeline,     \* post-call extraction: "idle", "running" or "settled"
    handed,       \* the transcripts handed to processTranscriptAndSend
    sinceCaller,  \* history: ms since the last caller-side event was handled
    createdSeen,  \* history: the number of 'session.created' messages handled
    deltas,       \* history: the deltas of the audio events handled while live
    completions,  \* history: the completion events handled, in arrival order
    starts,       \* history: the streamSids of the 'start' events handled
    mediaSeen,    \* history: the number of telephony 'media' events handled
    outbox,       \* what the post-call pipeline sent: requests and POSTs
    peer,         \* a second telephony connection and its closure's state
    immediates,   \* the pending setImmediate callbacks, in order
    odd,          \* history: the malformed or unrecognised messages handled
    frames        \* history: the caller frames handled, in arrival order

vars == <<variant, session, openAiWs, conn, timers, sentAi, sentConn, sessions,
          pipeline, handed, sinceCaller, createdSeen, deltas, completions,
          starts, mediaSeen, outbox, peer, immediates, odd, frames>>

----------------------------------------------------------------------------
(* Program constants *)

INACTIVITY_TIMEOUT == 20000
SessionUpdateDelay == 300
GreetingDelay == 400
HangupDelay == 3500
OpenReadyDelay == 300
GreetingDelayB == 500
SessionUpdateDelayP == 250
SessionUpdateDelayD == 250
HeartbeatTimeout == 10000

(* Bounds of the model *)

MaxStarts == 2
MaxCreated == 2
MaxDeltas == 2
MaxMedia == 1
MaxCompletions == 2
MaxTurns == 2
MaxOdd == 2
MaxFrames == 2
MaxPeerEvents == 2
MaxBeats == 2

Null == "null"

Min(a, b) == IF a <= b THEN a ELSE b

----------------------------------------------------------------------------
(* Base64: Buffer.from(s, 'base64').toString('base64').  A string is a      *)
(* sequence of one-character strings.  The decoder accepts the URL-safe    *)
(* alphabet, skips whitespace and stops at the padding; the encoder writes *)
(* the standard alphabet with padding.                                     *)

B64Alphabet ==
    << "A","B","C","D","E","F","G","H","I","J","K","L","M","N","O","P",
       "Q","R","S","T","U","V","W","X","Y","Z","a","b","c","d","e","f",
       "g","h","i","j","k","l","m","n","o","p","q","r","s","t","u","v",
       "w","x","y","z","0","1","2","3","4","5","6","7","8","9","+","/" >>

IsB64Char(c) == c \in {"-", "_"} \/ \E i \in 1..64 : B64Alphabet[i] = c

B64Value(c) ==
    IF c = "-" THEN 62
    ELSE IF c = "_" THEN 63
    ELSE (CHOOSE i \in 1..64 : B64Alphabet[i] = c) - 1

B64Char(v) == B64Alphabet[v + 1]

RECURSIVE B64Sextets(_)
B64Sextets(s) ==
    IF s = <<>> \/ Head(s) = "=" THEN <<>>
    ELSE IF IsB64Char(Head(s)) THEN <<B64Value(Head(s))>> \o B64Sextets(Tail(s))
    ELSE B64Sextets(Tail(s))

RECURSIVE B64Bytes(_)
B64Bytes(x) ==
    IF Len(x) < 2 THEN <<>>
    ELSE IF Len(x) = 2 THEN << x[1] * 4 + x[2] \div 16 >>
    ELSE IF Len(x) = 3
        THEN << x[1] * 4 + x[2] \div 16, (x[2] % 16) * 16 + x[3] \div 4 >>
    ELSE << x[1] * 4 + x[2] \div 16,
            (x[2] % 16) * 16 + x[3] \div 4,
            (x[3] % 4) * 64 + x[4] >> \o B64Bytes(SubSeq(x, 5, Len(x)))

Base64Decode(s) == B64Bytes(B64Sextets(s))

RECURSIVE Base64Encode(_)
Base64Encode(b) ==
    IF b = <<>> THEN <<>>
    ELSE IF Len(b) = 1
        THEN << B64Char(b[1] \div 4), B64Char((b[1] % 4) * 16), "=", "=" >>
    ELSE IF Len(b) = 2
        THEN << B64Char(b[1] \div 4), B64Char((b[1] % 4) * 16 + b[2] \div 16),
                B64Char((b[2] % 16) * 4), "=" >>
    ELSE << B64Char(b[1] \div 4), B64Char((b[1] % 4) * 16 + b[2] \div 16),
            B64Char((b[2] % 16) * 4 + b[3] \div 64), B64Char(b[3] % 64) >>
         \o Base64Encode(SubSeq(b, 4, Len(b)))

Reencode(s) == Base64Encode(Base64Decode(s))

(* The audio chunks the speech service may deliver: canonical base64, the  *)
(* same kind of chunk in the URL-safe alphabet, an empty chunk.            *)
DeltaCanonical == <<"Q","U","J","D">>
DeltaUrlSafe == <<"Q","U","-","_">>
DeltaEmpty == <<>>
Deltas == {DeltaCanonical, DeltaUrlSafe, DeltaEmpty}

(* The caller audio frames the telephony gateway may deliver. *)
Payloads == {<<"f","w","=","=">>}

(* Two different frames, for the order of the relay. *)
CallerFrames == {<<"f","w","=","=">>, <<"/","w","=","=">>}

StreamSids == {"MZ1", "MZ2"}

(* What a member access yields where the member is missing. *)
Undefined == "undefined"

(* Telephony messages the 'message' handler cannot make sense of: text     *)
(* that is no JSON; a 'start' event without the `start` member, or with a  *)
(* `start` object that has no streamSid; a 'media' event without the       *)
(* `media` member, or with a `media` object that has no payload.           *)
TelephonyMalformed ==
    {"not JSON", "start without start", "start without streamSid",
     "media without media", "media without payload"}

(* The same for the speech socket: text that is no JSON, a transcription   *)
(* event without `transcript`, an audio event without `delta`, a           *)
(* 'response.done' without `response`.                                     *)
SpeechMalformed ==
    {"speech: not JSON", "transcription without transcript",
     "audio delta without delta", "response.done without response"}

(* Well-formed telephony events that are neither 'start' nor 'media'. *)
OtherEvents == {"stop", "mark", "connected"}

----------------------------------------------------------------------------
(* Text.  A text is a sequence of tokens: words, punctuation, and " " for  *)
(* a run of leading or trailing whitespace.  Adjacent words are separated  *)
(* by one space.                                                           *)

NoText == <<>>

RECURSIVE TrimStart(_)
TrimStart(t) ==
    IF t # <<>> /\ Head(t) = " " THEN TrimStart(Tail(t)) ELSE t

RECURSIVE TrimEnd(_)
TrimEnd(t) ==
    IF t # <<>> /\ t[Len(t)] = " " THEN TrimEnd(SubSeq(t, 1, Len(t) - 1)) ELSE t

Trim(t) == TrimEnd(TrimStart(t))

ToLower(w) ==
    CASE w = "Farvel" -> "farvel"
      [] w = "Hej" -> "hej"
      [] w = "Tak" -> "tak"
      [] OTHER -> w

ClosingPhrases ==
    { <<"farvel">>, <<"hej", "hej">>, <<"tak", "for", "i", "dag">>,
      <<"det", "var", "det", "hele">>, <<"tak", "skal", "du", "have">> }

(* text.match(/\b(farvel|hej hej|...)\b/i) *)
MatchesClosingPhrase(t) ==
    \E ph \in ClosingPhrases : \E i \in 1..Len(t) :
        /\ i + Len(ph) - 1 <= Len(t)
        /\ \A k \in 1..Len(ph) : ToLower(t[i + k - 1]) = ph[k]

(* content.find((c) => c.transcript)?.transcript: the transcript of the    *)
(* first content block that carries a non-empty one.                       *)
RECURSIVE FindTranscript(_)
FindTranscript(content) ==
    IF content = <<>> THEN NoText
    ELSE IF Head(content) # NoText THEN Head(content)
    ELSE FindTranscript(Tail(content))

(* event.response.output?.[0]?.content?.find(...)?.transcript *)
FirstOutputTranscript(output) ==
    IF output = <<>> THEN NoText ELSE FindTranscript(output[1])

TextName == <<" ", "Kim">>
TextReply == <<"Hej", "Kim">>
TextFarewell == <<"Farvel", ",", "god", "dag", "!">>
TextBlank == <<" ">>

UserTexts == {TextName}

(* What the caller of a second, concurrent call says. *)
TextPeer == <<"Ole", " ">>

(* response.output: a sequence of items, each the sequence of its content  *)
(* blocks, each block given by its transcript (NoText: the block has none).*)
OutputNone == <<>>
OutputReply == << <<NoText, TextReply>> >>
OutputFarewell == << <<TextFarewell>> >>
OutputBlank == << <<TextBlank>> >>
Outputs == {OutputNone, OutputReply, OutputFarewell, OutputBlank}

----------------------------------------------------------------------------
(* Sockets, timers and messages *)

(* A message written to a socket.  `to` is the socket, `type` the event     *)
(* type, `arg` the instruction or reason, `payload` the audio, `sid` the    *)
(* streamSid it carries.  `waited` is history: for a stop, the time since   *)
(* its hangup was scheduled; for the inactivity line, the time since the    *)
(* last caller-side event.                                                  *)
Msg(type, arg, payload, sid, waited) ==
    [type |-> type, arg |-> arg, payload |-> payload, sid |-> sid,
     waited |-> waited]

(* ws send(): a message leaves only while the socket is OPEN. *)
Send(log, readyState, msg) ==
    IF readyState = "OPEN" THEN Append(log, msg) ELSE log

TimerIds(ts) == {t.id : t \in ts}

(* The handle setTimeout returns: one no pending timer has, and not the     *)
(* handle `keep` that the session still holds.                              *)
FreshId(ts, keep) ==
    CHOOSE i \in 1..(Cardinality(ts) + 2) :
        /\ i \notin TimerIds(ts) \cup {keep}
        /\ \A j \in 1..(i - 1) : j \in TimerIds(ts) \cup {keep}

SetTimeout(ts, keep, kind, arg, delay) ==
    ts \cup {[id |-> FreshId(ts, keep), kind |-> kind, arg |-> arg,
              remaining |-> delay, waited |-> 0]}

ClearTimeout(ts, id) == {t \in ts : t.id # id}

Due(kind) == {t \in timers : t.kind = kind /\ t.remaining = 0}

NoHandle == 0

(* A caller frame handled: its payload, and whether the speech socket was  *)
(* OPEN when the handler looked.                                           *)
Frame(payload, open) == [payload |-> payload, open |-> open]

(* const session = {...}: src/index.js 58-66 *)
NewSession ==
    [transcript |-> <<>>, streamSid |-> Null, inactivityTimer |-> NoHandle,
     greeted |-> FALSE, openAiReady |-> FALSE, twilioReady |-> FALSE]

Line(speaker, text) == [speaker |-> speaker, text |-> text]

SessionId == "CA1"

----------------------------------------------------------------------------
(* Variant A: src/index.js lines 1-330 *)

(* resetInactivityTimer with the clearTimeout of line 86 lost. *)
resetInactivityTimer_NoClear(ts, handle) ==
    LET id == FreshId(ts, NoHandle)
    IN  [timers |-> ts \cup {[id |-> id, kind |-> "inactivity",
                               arg |-> "Inaktivitet",
                               remaining |-> INACTIVITY_TIMEOUT,
                               waited |-> 0]},
         handle |-> id]

(* resetInactivityTimer: the timers and the handle after the call. *)
resetInactivityTimer(ts, handle) ==
    LET cleared == IF handle # NoHandle THEN ClearTimeout(ts, handle) ELSE ts
        id == FreshId(cleared, NoHandle)
    IN  [timers |-> cleared \cup {[id |-> id, kind |-> "inactivity",
                                    arg |-> "Inaktivitet",
                                    remaining |-> INACTIVITY_TIMEOUT,
                                    waited |-> 0]},
         handle |-> id]

(* sendSessionUpdate(true), run by the timer of openAiWs.on('open') *)
sendSessionUpdate ==
    Send(sentAi, openAiWs, Msg("session.update", "none", <<>>, Null, 0))

(* openAiWs.on('open') *)
A_AiOpen ==
    /\ variant = "A"
    /\ openAiWs = "CONNECTING"
    /\ openAiWs' = "OPEN"
    /\ timers' = SetTimeout(timers, session.inactivityTimer, "sendSessionUpdate",
                            "", SessionUpdateDelay)
    /\ UNCHANGED <<variant, session, conn, sentAi, sentConn, sessions, pipeline, handed,
                   sinceCaller, createdSeen, deltas, completions, starts,
                   mediaSeen,
                   outbox,
                   peer, immediates, odd, frames>>

A_SessionUpdateTimer ==
    /\ variant = "A"
    /\ \E t \in Due("sendSessionUpdate") :
        /\ timers' = timers \ {t}
        /\ sentAi' = sendSessionUpdate
    /\ UNCHANGED <<variant, sentConn, session, openAiWs, conn, sessions, pipeline, handed,
                   sinceCaller, createdSeen, deltas, completions, starts,
                   mediaSeen,
                   outbox,
                   peer, immediates, odd, frames>>

(* sendGreeting with the `if (session.greeted) return` of line 113 lost. *)
sendGreeting_Unguarded ==
    IF ~session.twilioReady \/ ~session.openAiReady
        THEN [session |-> session, sent |-> sentAi]
    ELSE [session |-> [session EXCEPT !.greeted = TRUE],
          sent |-> Send(sentAi, openAiWs,
                        Msg("response.create", "greeting", <<>>, Null, 0))]

(* sendGreeting: the session and the log after the call. *)
sendGreeting ==
    IF session.greeted THEN [session |-> session, sent |-> sentAi]
    ELSE IF ~session.twilioReady \/ ~session.openAiReady
        THEN [session |-> session, sent |-> sentAi]
    ELSE [session |-> [session EXCEPT !.greeted = TRUE],
          sent |-> Send(sentAi, openAiWs,
                        Msg("response.create", "greeting", <<>>, Null, 0))]

A_GreetingTimer ==
    /\ variant = "A"
    /\ \E t \in Due("sendGreeting") :
        /\ timers' = timers \ {t}
        /\ session' = sendGreeting.session
        /\ sentAi' = sendGreeting.sent
    /\ UNCHANGED <<variant, sentConn, openAiWs, conn, sessions, pipeline, handed,
                   sinceCaller, createdSeen, deltas, completions, starts,
                   mediaSeen,
                   outbox,
                   peer, immediates, odd, frames>>

(* openAiWs.on('message'): event.type === 'session.created' *)
A_AiSessionCreated ==
    /\ variant = "A"
    /\ openAiWs \in {"OPEN", "CLOSING"}
    /\ createdSeen < MaxCreated
    /\ createdSeen' = createdSeen + 1
    /\ session' = [session EXCEPT !.openAiReady = TRUE]
    /\ timers' = IF session.twilioReady /\ ~session.greeted
                 THEN SetTimeout(timers, session.inactivityTimer, "sendGreeting",
                                 "", GreetingDelay)
                 ELSE timers
    /\ UNCHANGED <<variant, openAiWs, conn, sentAi, sentConn, sessions, pipeline, handed,
                   sinceCaller, deltas, completions, starts, mediaSeen,
                   outbox,
                   peer, immediates, odd, frames>>

(* The audio handler writing each chunk twice. *)
A_AiAudioDelta_Twice(delta) ==
    /\ variant = "A"
    /\ openAiWs \in {"OPEN", "CLOSING"}
    /\ Len(deltas) < MaxDeltas
    /\ LET audioDelta == Msg("media", "", Reencode(delta), session.streamSid, 0)
       IN  sentConn' = Send(Send(sentConn, conn, audioDelta), conn, audioDelta)
    /\ deltas' = IF conn = "OPEN" THEN Append(deltas, delta) ELSE deltas
    /\ UNCHANGED <<variant, sentAi, session, openAiWs, conn, timers, sessions, pipeline,
                   handed, sinceCaller, createdSeen, completions, starts,
                   mediaSeen,
                   outbox,
                   peer, immediates, odd, frames>>

(* openAiWs.on('message'): event.type === 'response.audio.delta' *)
A_AiAudioDelta(delta) ==
    /\ variant = "A"
    /\ openAiWs \in {"OPEN", "CLOSING"}
    /\ Len(deltas) < MaxDeltas
    /\ sentConn' = Send(sentConn, conn,
                    Msg("media", "", Reencode(delta),
                        session.streamSid, 0))
    /\ deltas' = IF conn = "OPEN" THEN Append(deltas, delta) ELSE deltas
    /\ UNCHANGED <<variant, sentAi, session, openAiWs, conn, timers, sessions, pipeline,
                   handed, sinceCaller, createdSeen, completions, starts,
                   mediaSeen,
                   outbox,
                   peer, immediates, odd, frames>>

(* The transcription handler with the record put first (unshift for push). *)
A_AiTranscriptionCompleted_Prepend(transcript) ==
    /\ variant = "A"
    /\ openAiWs \in {"OPEN", "CLOSING"}
    /\ Len(completions) < MaxCompletions
    /\ LET userText == Trim(transcript)
           r == resetInactivityTimer(timers, session.inactivityTimer)
       IN  /\ session' = [session EXCEPT
                            !.transcript = <<Line("User", userText)>> \o @,
                            !.inactivityTimer = r.handle]
           /\ timers' = r.timers
    /\ completions' = Append(completions, Line("User", transcript))
    /\ sinceCaller' = 0
    /\ UNCHANGED <<variant, openAiWs, conn, sentAi, sentConn, sessions, pipeline, handed,
                   createdSeen, deltas, starts, mediaSeen,
                   outbox,
                   peer, immediates, odd, frames>>

(* openAiWs.on('message'): 'conversation.item.input_audio_transcription.completed' *)
A_AiTranscriptionCompleted(transcript) ==
    /\ variant = "A"
    /\ openAiWs \in {"OPEN", "CLOSING"}
    /\ Len(completions) < MaxCompletions
    /\ LET userText == Trim(transcript)
           r == resetInactivityTimer(timers, session.inactivityTimer)
       IN  /\ session' = [session EXCEPT
                            !.transcript = Append(@, Line("User", userText)),
                            !.inactivityTimer = r.handle]
           /\ timers' = r.timers
    /\ completions' = Append(completions, Line("User", transcript))
    /\ sinceCaller' = 0
    /\ UNCHANGED <<variant, openAiWs, conn, sentAi, sentConn, sessions, pipeline, handed,
                   createdSeen, deltas, starts, mediaSeen,
                   outbox,
                   peer, immediates, odd, frames>>

(* sendFarewell hanging up at once, the 3500 ms of line 144 lost. *)
sendFarewell_Immediate ==
    [sent |-> Send(sentAi, openAiWs,
                   Msg("response.create", "farewell", <<>>, Null, 0)),
     timers |-> SetTimeout(timers, session.inactivityTimer, "endCall", "Farvel",
                           0)]

(* sendFarewell: the log and the timers after the call. *)
sendFarewell ==
    [sent |-> Send(sentAi, openAiWs,
                   Msg("response.create", "farewell", <<>>, Null, 0)),
     timers |-> SetTimeout(timers, session.inactivityTimer, "endCall", "Farvel",
                           HangupDelay)]

(* openAiWs.on('message'): event.type === 'response.done' *)
A_AiResponseDone(output) ==
    /\ variant = "A"
    /\ openAiWs \in {"OPEN", "CLOSING"}
    /\ Len(completions) < MaxCompletions
    /\ LET text == Trim(FirstOutputTranscript(output))
       IN  /\ session' = IF text # NoText
                         THEN [session EXCEPT
                                 !.transcript = Append(@, Line("Bot", text))]
                         ELSE session
           /\ IF MatchesClosingPhrase(text)
              THEN /\ sentAi' = sendFarewell.sent
                   /\ timers' = sendFarewell.timers
              ELSE UNCHANGED <<sentAi, timers>>
    /\ completions' = Append(completions, Line("Bot", FirstOutputTranscript(output)))
    /\ UNCHANGED <<variant, sentConn, openAiWs, conn, sessions, pipeline, handed,
                   sinceCaller, createdSeen, deltas, starts, mediaSeen,
                   outbox,
                   peer, immediates, odd, frames>>

(* conn.on('message'): case 'start' *)
A_ConnStart(streamSid) ==
    /\ variant = "A"
    /\ conn = "OPEN"
    /\ Len(starts) < MaxStarts
    /\ starts' = Append(starts, streamSid)
    /\ LET r == resetInactivityTimer(timers, session.inactivityTimer)
       IN  /\ session' = [session EXCEPT !.streamSid = streamSid,
                                         !.twilioReady = TRUE,
                                         !.inactivityTimer = r.handle]
           /\ timers' = IF session.openAiReady /\ ~session.greeted
                        THEN SetTimeout(r.timers, r.handle, "sendGreeting", "",
                                        GreetingDelay)
                        ELSE r.timers
    /\ sinceCaller' = 0
    /\ UNCHANGED <<variant, openAiWs, conn, sentAi, sentConn, sessions, pipeline, handed,
                   createdSeen, deltas, completions, mediaSeen,
                   outbox,
                   peer, immediates, odd, frames>>

(* conn.on('message'): case 'media' *)
A_ConnMedia(payload) ==
    /\ variant = "A"
    /\ conn = "OPEN"
    /\ mediaSeen < MaxMedia
    /\ mediaSeen' = mediaSeen + 1
    /\ frames' = Append(frames, Frame(payload, openAiWs = "OPEN"))
    /\ sentAi' = Send(sentAi, openAiWs,
                    Msg("input_audio_buffer.append", "", payload, Null, 0))
    /\ LET r == resetInactivityTimer(timers, session.inactivityTimer)
       IN  /\ session' = [session EXCEPT !.inactivityTimer = r.handle]
           /\ timers' = r.timers
    /\ sinceCaller' = 0
    /\ UNCHANGED <<variant, sentConn, openAiWs, conn, sessions, pipeline, handed,
                   createdSeen, deltas, completions, starts,
                   outbox,
                   peer, immediates, odd>>

(* conn.on('message') with a message of TelephonyMalformed.  JSON.parse     *)
(* throws on text that is no JSON, and `data.start.streamSid` and           *)
(* `data.media.payload` throw where `start` or `media` is missing; the      *)
(* catch logs it.  An object that lacks the inner member yields undefined,  *)
(* and the case runs on: JSON.stringify leaves out an undefined `audio`.    *)
A_ConnMalformed(msg) ==
    /\ variant = "A"
    /\ conn = "OPEN"
    /\ Len(odd) < MaxOdd
    /\ odd' = Append(odd, msg)
    /\ LET r == resetInactivityTimer(timers, session.inactivityTimer)
       IN  CASE msg = "start without streamSid" ->
                  /\ session' = [session EXCEPT !.streamSid = Undefined,
                                                !.twilioReady = TRUE,
                                                !.inactivityTimer = r.handle]
                  /\ timers' = IF session.openAiReady /\ ~session.greeted
                               THEN SetTimeout(r.timers, r.handle, "sendGreeting",
                                               "", GreetingDelay)
                               ELSE r.timers
                  /\ sinceCaller' = 0
                  /\ UNCHANGED sentAi
             [] msg = "media without payload" ->
                  /\ sentAi' = Send(sentAi, openAiWs,
                                    Msg("input_audio_buffer.append", Undefined,
                                        <<>>, Null, 0))
                  /\ session' = [session EXCEPT !.inactivityTimer = r.handle]
                  /\ timers' = r.timers
                  /\ sinceCaller' = 0
             [] msg = "media without media" /\ openAiWs # "OPEN" ->
                  /\ session' = [session EXCEPT !.inactivityTimer = r.handle]
                  /\ timers' = r.timers
                  /\ sinceCaller' = 0
                  /\ UNCHANGED sentAi
             [] OTHER -> UNCHANGED <<session, timers, sinceCaller, sentAi>>
    /\ UNCHANGED <<variant, sentConn, openAiWs, conn, sessions, pipeline, handed,
                   createdSeen, deltas, completions, starts, mediaSeen, outbox,
                   peer, immediates, frames>>

(* conn.on('message') with an event of OtherEvents re-arming the watchdog. *)
A_ConnOther_Rearm(event) ==
    /\ variant = "A"
    /\ conn = "OPEN"
    /\ Len(odd) < MaxOdd
    /\ odd' = Append(odd, event)
    /\ LET r == resetInactivityTimer(timers, session.inactivityTimer)
       IN  /\ session' = [session EXCEPT !.inactivityTimer = r.handle]
           /\ timers' = r.timers
    /\ UNCHANGED <<variant, sentAi, sentConn, openAiWs, conn, sessions, pipeline,
                   handed, sinceCaller, createdSeen, deltas, completions, starts,
                   mediaSeen, outbox, peer, immediates, frames>>

(* conn.on('message') with an event of OtherEvents: the switch has no case *)
(* for it.                                                                  *)
A_ConnOther(event) ==
    /\ variant = "A"
    /\ conn = "OPEN"
    /\ Len(odd) < MaxOdd
    /\ odd' = Append(odd, event)
    /\ UNCHANGED <<variant, session, timers, sentAi, sentConn, openAiWs, conn,
                   sessions, pipeline, handed, sinceCaller, createdSeen, deltas,
                   completions, starts, mediaSeen, outbox, peer, immediates,
                   frames>>

(* openAiWs.on('message') with a message of SpeechMalformed: JSON.parse,    *)
(* `event.transcript.trim()`, Buffer.from(undefined, 'base64') and          *)
(* `event.response.output` throw, and the catch logs it.                    *)
A_AiMalformed(msg) ==
    /\ variant = "A"
    /\ openAiWs \in {"OPEN", "CLOSING"}
    /\ Len(odd) < MaxOdd
    /\ odd' = Append(odd, msg)
    /\ UNCHANGED <<variant, session, timers, sentAi, sentConn, openAiWs, conn,
                   sessions, pipeline, handed, sinceCaller, createdSeen, deltas,
                   completions, starts, mediaSeen, outbox, peer, immediates,
                   frames>>

(* cleanup(session, openAiWs): the timers and the speech socket after it. *)
cleanup ==
    [timers |-> IF session.inactivityTimer # NoHandle
                THEN ClearTimeout(timers, session.inactivityTimer) ELSE timers,
     openAiWs |-> IF openAiWs = "OPEN" THEN "CLOSING" ELSE openAiWs]

(* conn.on('close') skipping the pipeline when nothing was transcribed. *)
A_ConnClose_SkipEmpty ==
    /\ variant = "A"
    /\ conn = "OPEN"
    /\ conn' = "CLOSED"
    /\ timers' = cleanup.timers
    /\ openAiWs' = cleanup.openAiWs
    /\ handed' = IF session.transcript = <<>> THEN handed
                 ELSE Append(handed, session.transcript)
    /\ pipeline' = IF session.transcript = <<>> THEN "settled" ELSE "running"
    /\ UNCHANGED <<variant, session, sentAi, sentConn, sessions, sinceCaller, createdSeen,
                   deltas, completions, starts, mediaSeen, outbox,
                   peer, immediates, odd, frames>>

(* conn.on('close') with sessions.delete moved ahead of the await. *)
A_ConnClose_DeleteFirst ==
    /\ variant = "A"
    /\ conn = "OPEN"
    /\ conn' = "CLOSED"
    /\ timers' = cleanup.timers
    /\ openAiWs' = cleanup.openAiWs
    /\ sessions' = sessions \ {SessionId}
    /\ handed' = Append(handed, session.transcript)
    /\ pipeline' = "running"
    /\ UNCHANGED <<variant, session, sentAi, sentConn, sinceCaller, createdSeen,
                   deltas, completions, starts, mediaSeen,
                   outbox,
                   peer, immediates, odd, frames>>

(* conn.on('close'), up to the await of processTranscriptAndSend *)
A_ConnClose ==
    /\ variant = "A"
    /\ conn = "OPEN"
    /\ conn' = "CLOSED"
    /\ timers' = cleanup.timers
    /\ openAiWs' = cleanup.openAiWs
    /\ handed' = Append(handed, session.transcript)
    /\ pipeline' = "running"
    /\ UNCHANGED <<variant, session, sentAi, sentConn, sessions, sinceCaller, createdSeen,
                   deltas, completions, starts, mediaSeen,
                   outbox,
                   peer, immediates, odd, frames>>

(* gracefulHangup with the conn.send of line 253 lost. *)
gracefulHangup_Silent(reason) ==
    [sent |-> sentConn,
     timers |-> SetTimeout(timers, session.inactivityTimer, "endCall", reason,
                           HangupDelay)]

(* gracefulHangup(conn, session, reason): the log and the timers after it. *)
gracefulHangup(reason) ==
    [sent |-> Send(sentConn, conn,
                   Msg("response.create", "quiet", <<>>, Null,
                       sinceCaller)),
     timers |-> SetTimeout(timers, session.inactivityTimer, "endCall", reason,
                           HangupDelay)]

(* the callback resetInactivityTimer arms *)
A_InactivityTimer ==
    /\ variant = "A"
    /\ \E t \in Due("inactivity") :
        LET h == gracefulHangup("Inaktivitet")
        IN  /\ sentConn' = h.sent
            /\ timers' = h.timers \ {t}
    /\ UNCHANGED <<variant, sentAi, session, openAiWs, conn, sessions, pipeline, handed,
                   sinceCaller, createdSeen, deltas, completions, starts,
                   mediaSeen,
                   outbox,
                   peer, immediates, odd, frames>>

(* endCall(conn, session, reason), run by a hangup timer *)
endCall(t) == Send(sentConn, conn, Msg("stop", t.arg, <<>>, Null, t.waited))

A_EndCallTimer ==
    /\ variant = "A"
    /\ \E t \in Due("endCall") :
        /\ timers' = timers \ {t}
        /\ sentConn' = endCall(t)
    /\ UNCHANGED <<variant, sentAi, session, openAiWs, conn, sessions, pipeline, handed,
                   sinceCaller, createdSeen, deltas, completions, starts,
                   mediaSeen,
                   outbox,
                   peer, immediates, odd, frames>>

----------------------------------------------------------------------------
(* Variant B: src/index.js lines 332-585 *)

(* const session = sessions.get(sessionId) || {...}: src/index.js 393-398 *)
NewSessionB ==
    [transcript |-> <<>>, streamSid |-> Null, openAiReady |-> FALSE,
     greeted |-> FALSE]

(* ai.on('open') *)
B_AiOpen ==
    /\ variant = "B"
    /\ openAiWs = "CONNECTING"
    /\ openAiWs' = "OPEN"
    /\ timers' = SetTimeout(timers, NoHandle, "openReady", "", OpenReadyDelay)
    /\ UNCHANGED <<variant, session, conn, sentAi, sentConn, sessions, pipeline, handed,
                   sinceCaller, createdSeen, deltas, completions, starts,
                   mediaSeen,
                   outbox,
                   peer, immediates, odd, frames>>

(* the callback ai.on('open') schedules: sendSessionUpdate(), openAiReady, *)
(* and the greeting timer when the streamSid is known                      *)
B_OpenReadyTimer ==
    /\ variant = "B"
    /\ \E t \in Due("openReady") :
        /\ sentAi' = Send(sentAi, openAiWs,
                        Msg("session.update", "server_vad", <<>>, Null, 0))
        /\ session' = [session EXCEPT !.openAiReady = TRUE]
        /\ timers' = IF session.streamSid # Null
                     THEN SetTimeout(timers \ {t}, NoHandle, "sendGreeting", "",
                                     GreetingDelayB)
                     ELSE timers \ {t}
    /\ UNCHANGED <<variant, sentConn, openAiWs, conn, sessions, pipeline, handed,
                   sinceCaller, createdSeen, deltas, completions, starts,
                   mediaSeen,
                   outbox,
                   peer, immediates, odd, frames>>

(* sendGreeting of variant B: the session and the log after the call. *)
B_sendGreeting ==
    IF session.greeted THEN [session |-> session, sent |-> sentAi]
    ELSE [session |-> [session EXCEPT !.greeted = TRUE],
          sent |-> Send(sentAi, openAiWs,
                        Msg("response.create", "greeting", <<>>, Null, 0))]

B_GreetingTimer ==
    /\ variant = "B"
    /\ \E t \in Due("sendGreeting") :
        /\ timers' = timers \ {t}
        /\ session' = B_sendGreeting.session
        /\ sentAi' = B_sendGreeting.sent
    /\ UNCHANGED <<variant, sentConn, openAiWs, conn, sessions, pipeline, handed,
                   sinceCaller, createdSeen, deltas, completions, starts,
                   mediaSeen,
                   outbox,
                   peer, immediates, odd, frames>>

(* ai.on('message') with a 'session.created' event: no branch handles it. *)
B_AiSessionCreated ==
    /\ variant = "B"
    /\ openAiWs \in {"OPEN", "CLOSING"}
    /\ createdSeen < MaxCreated
    /\ createdSeen' = createdSeen + 1
    /\ UNCHANGED <<variant, session, openAiWs, conn, timers, sentAi, sentConn, sessions,
                   pipeline, handed, sinceCaller, deltas, completions, starts,
                   mediaSeen,
                   outbox,
                   peer, immediates, odd, frames>>

(* ai.on('message'): 'conversation.item.input_audio_transcription.completed' *)
B_AiTranscriptionCompleted(transcript) ==
    /\ variant = "B"
    /\ openAiWs \in {"OPEN", "CLOSING"}
    /\ Len(completions) < MaxCompletions
    /\ session' = [session EXCEPT
                     !.transcript = Append(@, Line("User", Trim(transcript)))]
    /\ completions' = Append(completions, Line("User", transcript))
    /\ UNCHANGED <<variant, openAiWs, conn, timers, sentAi, sentConn, sessions, pipeline,
                   handed, sinceCaller, createdSeen, deltas, starts, mediaSeen,
                   outbox,
                   peer, immediates, odd, frames>>

(* ai.on('message'): event.type === 'response.audio.delta' && event.delta *)
B_AiAudioDelta(delta) ==
    /\ variant = "B"
    /\ openAiWs \in {"OPEN", "CLOSING"}
    /\ Len(deltas) < MaxDeltas
    /\ sentConn' = IF delta # <<>>
               THEN Send(sentConn, conn,
                         Msg("media", "", delta, session.streamSid, 0))
               ELSE sentConn
    /\ deltas' = IF conn = "OPEN" THEN Append(deltas, delta) ELSE deltas
    /\ UNCHANGED <<variant, sentAi, session, openAiWs, conn, timers, sessions, pipeline,
                   handed, sinceCaller, createdSeen, completions, starts,
                   mediaSeen,
                   outbox,
                   peer, immediates, odd, frames>>

(* ai.on('message'): event.type === 'response.done' *)
B_AiResponseDone(output) ==
    /\ variant = "B"
    /\ openAiWs \in {"OPEN", "CLOSING"}
    /\ Len(completions) < MaxCompletions
    /\ LET txt == FirstOutputTranscript(output)
       IN  session' = IF txt # NoText
                      THEN [session EXCEPT
                              !.transcript = Append(@, Line("Ava", txt))]
                      ELSE session
    /\ completions' = Append(completions, Line("Bot", FirstOutputTranscript(output)))
    /\ UNCHANGED <<variant, openAiWs, conn, timers, sentAi, sentConn, sessions, pipeline,
                   handed, sinceCaller, createdSeen, deltas, starts, mediaSeen,
                   outbox,
                   peer, immediates, odd, frames>>

(* conn.on('message'): case 'start' *)
B_ConnStart(streamSid) ==
    /\ variant = "B"
    /\ conn = "OPEN"
    /\ Len(starts) < MaxStarts
    /\ starts' = Append(starts, streamSid)
    /\ session' = [session EXCEPT !.streamSid = streamSid]
    /\ timers' = IF session.openAiReady
                 THEN SetTimeout(timers, NoHandle, "sendGreeting", "",
                                 GreetingDelayB)
                 ELSE timers
    /\ UNCHANGED <<variant, openAiWs, conn, sentAi, sentConn, sessions, pipeline, handed,
                   sinceCaller, createdSeen, deltas, completions, mediaSeen,
                   outbox,
                   peer, immediates, odd, frames>>

(* conn.on('message'): case 'media' *)
B_ConnMedia(payload) ==
    /\ variant = "B"
    /\ conn = "OPEN"
    /\ mediaSeen < MaxMedia
    /\ mediaSeen' = mediaSeen + 1
    /\ frames' = Append(frames, Frame(payload, openAiWs = "OPEN"))
    /\ sentAi' = Send(sentAi, openAiWs,
                    Msg("input_audio_buffer.append", "", payload, Null, 0))
    /\ UNCHANGED <<variant, sentConn, session, openAiWs, conn, timers, sessions, pipeline,
                   handed, sinceCaller, createdSeen, deltas, completions, starts,
                   outbox,
                   peer, immediates, odd>>

(* conn.on('close'), up to the await of processTranscriptAndSend *)
B_ConnClose ==
    /\ variant = "B"
    /\ conn = "OPEN"
    /\ conn' = "CLOSED"
    /\ openAiWs' = IF openAiWs = "OPEN" THEN "CLOSING" ELSE openAiWs
    /\ handed' = Append(handed, session.transcript)
    /\ pipeline' = "running"
    /\ UNCHANGED <<variant, session, timers, sentAi, sentConn, sessions, sinceCaller,
                   createdSeen, deltas, completions, starts, mediaSeen,
                   outbox,
                   peer, immediates, odd, frames>>

----------------------------------------------------------------------------
(* Variant P: src/unnamed/part_000 *)

(* let session = sessions.get(sessionId) || { transcript: '', streamSid: null } *)
(* with the two fields the message handler adds later                          *)
NewSessionP ==
    [transcript |-> <<>>, streamSid |-> Null, speechStartTime |-> FALSE,
     firstAudioTimestamp |-> FALSE]

(* openAiWs.on('open') *)
P_AiOpen ==
    /\ variant = "P"
    /\ openAiWs = "CONNECTING"
    /\ openAiWs' = "OPEN"
    /\ timers' = SetTimeout(timers, NoHandle, "sendSessionUpdate", "",
                            SessionUpdateDelayP)
    /\ UNCHANGED <<variant, session, conn, sentAi, sentConn, sessions, pipeline, handed,
                   sinceCaller, createdSeen, deltas, completions, starts,
                   mediaSeen,
                   outbox,
                   peer, immediates, odd, frames>>

(* sendSessionUpdate, run by the timer of openAiWs.on('open') *)
P_SessionUpdateTimer ==
    /\ variant = "P"
    /\ \E t \in Due("sendSessionUpdate") :
        /\ timers' = timers \ {t}
        /\ sentAi' = Send(sentAi, openAiWs,
                        Msg("session.update", "server_vad", <<>>, Null, 0))
    /\ UNCHANGED <<variant, sentConn, session, openAiWs, conn, sessions, pipeline, handed,
                   sinceCaller, createdSeen, deltas, completions, starts,
                   mediaSeen,
                   outbox,
                   peer, immediates, odd, frames>>

(* The explicit response requests written to the speech socket: every      *)
(* 'response.create' that is no greeting, farewell or inactivity line.      *)
TurnRequests(log) ==
    {i \in 1..Len(log) : log[i].type = "response.create" /\ log[i].arg = "turn"}

(* openAiWs.on('message'): 'input_audio_buffer.speech_started' *)
P_AiSpeechStarted ==
    /\ variant = "P"
    /\ openAiWs \in {"OPEN", "CLOSING"}
    /\ ~session.speechStartTime
    /\ session' = [session EXCEPT !.speechStartTime = TRUE]
    /\ UNCHANGED <<variant, openAiWs, conn, timers, sentAi, sentConn, sessions, pipeline,
                   handed, sinceCaller, createdSeen, deltas, completions, starts,
                   mediaSeen, outbox,
                   peer, immediates, odd, frames>>

(* openAiWs.on('message'): 'input_audio_buffer.speech_stopped' *)
P_AiSpeechStopped ==
    /\ variant = "P"
    /\ openAiWs = "OPEN"
    /\ Cardinality(TurnRequests(sentAi)) < MaxTurns
    /\ sentAi' = Send(sentAi, openAiWs, Msg("response.create", "turn", <<>>, Null, 0))
    /\ UNCHANGED <<variant, session, openAiWs, conn, timers, sentConn, sessions, pipeline,
                   handed, sinceCaller, createdSeen, deltas, completions, starts,
                   mediaSeen, outbox,
                   peer, immediates, odd, frames>>

(* openAiWs.on('message'): 'conversation.item.input_audio_transcription.completed' *)
P_AiTranscriptionCompleted(transcript) ==
    /\ variant = "P"
    /\ openAiWs \in {"OPEN", "CLOSING"}
    /\ Len(completions) < MaxCompletions
    /\ session' = [session EXCEPT
                     !.transcript = Append(@, Line("User", Trim(transcript)))]
    /\ completions' = Append(completions, Line("User", transcript))
    /\ UNCHANGED <<variant, openAiWs, conn, timers, sentAi, sentConn, sessions, pipeline,
                   handed, sinceCaller, createdSeen, deltas, starts, mediaSeen,
                   outbox,
                   peer, immediates, odd, frames>>

AgentMessageNotFound == <<"Agent", "message", "not", "found">>

(* openAiWs.on('message'): response.type === 'response.done' *)
P_AiResponseDone(output) ==
    /\ variant = "P"
    /\ openAiWs \in {"OPEN", "CLOSING"}
    /\ Len(completions) < MaxCompletions
    /\ LET found == FirstOutputTranscript(output)
           agentMessage == IF found # NoText THEN found ELSE AgentMessageNotFound
       IN  session' = [session EXCEPT
                         !.transcript = Append(@, Line("Agent", agentMessage))]
    /\ completions' = Append(completions, Line("Bot", FirstOutputTranscript(output)))
    /\ UNCHANGED <<variant, openAiWs, conn, timers, sentAi, sentConn, sessions, pipeline,
                   handed, sinceCaller, createdSeen, deltas, starts, mediaSeen,
                   outbox,
                   peer, immediates, odd, frames>>

(* openAiWs.on('message'): 'response.audio.delta' && response.delta *)
P_AiAudioDelta(delta) ==
    /\ variant = "P"
    /\ openAiWs \in {"OPEN", "CLOSING"}
    /\ Len(deltas) < MaxDeltas
    /\ IF delta # <<>>
       THEN /\ session' = IF ~session.firstAudioTimestamp /\ session.speechStartTime
                          THEN [session EXCEPT !.firstAudioTimestamp = TRUE]
                          ELSE session
            /\ sentConn' = Send(sentConn, conn,
                            Msg("media", "", Reencode(delta),
                                session.streamSid, 0))
       ELSE UNCHANGED <<session, sentConn>>
    /\ deltas' = IF conn = "OPEN" THEN Append(deltas, delta) ELSE deltas
    /\ UNCHANGED <<variant, sentAi, openAiWs, conn, timers, sessions, pipeline, handed,
                   sinceCaller, createdSeen, completions, starts, mediaSeen,
                   outbox,
                   peer, immediates, odd, frames>>

(* connection.on('message'): case 'start' *)
P_ConnStart(streamSid) ==
    /\ variant = "P"
    /\ conn = "OPEN"
    /\ Len(starts) < MaxStarts
    /\ starts' = Append(starts, streamSid)
    /\ session' = [session EXCEPT !.streamSid = streamSid]
    /\ UNCHANGED <<variant, openAiWs, conn, timers, sentAi, sentConn, sessions, pipeline,
                   handed, sinceCaller, createdSeen, deltas, completions,
                   mediaSeen,
                   outbox,
                   peer, immediates, odd, frames>>

(* connection.on('message'): case 'media' *)
P_ConnMedia(payload) ==
    /\ variant = "P"
    /\ conn = "OPEN"
    /\ mediaSeen < MaxMedia
    /\ mediaSeen' = mediaSeen + 1
    /\ frames' = Append(frames, Frame(payload, openAiWs = "OPEN"))
    /\ sentAi' = Send(sentAi, openAiWs,
                    Msg("input_audio_buffer.append", "", payload, Null, 0))
    /\ UNCHANGED <<variant, sentConn, session, openAiWs, conn, timers, sessions, pipeline,
                   handed, sinceCaller, createdSeen, deltas, completions, starts,
                   outbox,
                   peer, immediates, odd>>

(* connection.on('message') with a message of TelephonyMalformed *)
P_ConnMalformed(msg) ==
    /\ variant = "P"
    /\ conn = "OPEN"
    /\ Len(odd) < MaxOdd
    /\ odd' = Append(odd, msg)
    /\ CASE msg = "start without streamSid" ->
              /\ session' = [session EXCEPT !.streamSid = Undefined]
              /\ UNCHANGED sentAi
         [] msg = "media without payload" ->
              /\ sentAi' = Send(sentAi, openAiWs,
                                Msg("input_audio_buffer.append", Undefined,
                                    <<>>, Null, 0))
              /\ UNCHANGED session
         [] OTHER -> UNCHANGED <<session, sentAi>>
    /\ UNCHANGED <<variant, timers, sentConn, openAiWs, conn, sessions, pipeline,
                   handed, sinceCaller, createdSeen, deltas, completions, starts,
                   mediaSeen, outbox, peer, immediates, frames>>

(* connection.on('message') with an event of OtherEvents: the default case *)
(* logs it.                                                                 *)
P_ConnOther(event) ==
    /\ variant = "P"
    /\ conn = "OPEN"
    /\ Len(odd) < MaxOdd
    /\ odd' = Append(odd, event)
    /\ UNCHANGED <<variant, session, timers, sentAi, sentConn, openAiWs, conn,
                   sessions, pipeline, handed, sinceCaller, createdSeen, deltas,
                   completions, starts, mediaSeen, outbox, peer, immediates,
                   frames>>

(* connection.on('close'), up to the await of processTranscriptAndSend *)
P_ConnClose ==
    /\ variant = "P"
    /\ conn = "OPEN"
    /\ conn' = "CLOSED"
    /\ openAiWs' = IF openAiWs = "OPEN" THEN "CLOSING" ELSE openAiWs
    /\ handed' = Append(handed, session.transcript)
    /\ pipeline' = "running"
    /\ UNCHANGED <<variant, session, timers, sentAi, sentConn, sessions, sinceCaller,
                   createdSeen, deltas, completions, starts, mediaSeen,
                   outbox,
                   peer, immediates, odd, frames>>

----------------------------------------------------------------------------
(* Variant D: src/index.js lines 897-1189.  A setImmediate callback runs    *)
(* at the end of the turn of the event loop that scheduled it: messages     *)
(* read from either socket in that turn are handled before it, timer        *)
(* callbacks and 'close' events are not.                                    *)

(* let session = { transcript: '', streamSid: null, createdAt: Date.now() } *)
(* (createdAt only feeds a log line), with the closure's `pingTimeout`.      *)
(* `beats` is history: the ping and pong frames handled so far.              *)
NewSessionD ==
    [transcript |-> <<>>, streamSid |-> Null, pingTimeout |-> NoHandle,
     beats |-> 0]

(* heartbeat(): the timers and the handle after the call. *)
heartbeat(ts, handle) ==
    LET cleared == IF handle # NoHandle THEN ClearTimeout(ts, handle) ELSE ts
        id == FreshId(cleared, NoHandle)
    IN  [timers |-> cleared \cup {[id |-> id, kind |-> "pingTimeout",
                                    arg |-> "", remaining |-> HeartbeatTimeout,
                                    waited |-> 0]},
         handle |-> id]

(* openAiWs.on('open') *)
D_AiOpen ==
    /\ variant = "D"
    /\ openAiWs = "CONNECTING"
    /\ openAiWs' = "OPEN"
    /\ LET h == heartbeat(timers, session.pingTimeout)
       IN  /\ session' = [session EXCEPT !.pingTimeout = h.handle]
           /\ timers' = SetTimeout(h.timers, h.handle, "sendSessionUpdate", "",
                                   SessionUpdateDelayD)
    /\ UNCHANGED <<variant, conn, sentAi, sentConn, sessions, pipeline, handed,
                   sinceCaller, createdSeen, deltas, completions, starts,
                   mediaSeen, outbox, peer, immediates, odd, frames>>

(* openAiWs.on('ping', heartbeat) and openAiWs.on('pong', heartbeat): a     *)
(* ping or pong frame of the speech service is read, which a socket does    *)
(* until its 'close' event.                                                 *)
D_AiPing ==
    /\ variant = "D"
    /\ openAiWs \in {"OPEN", "CLOSING"}
    /\ session.beats < MaxBeats
    /\ LET h == heartbeat(timers, session.pingTimeout)
       IN  /\ session' = [session EXCEPT !.pingTimeout = h.handle,
                                         !.beats = @ + 1]
           /\ timers' = h.timers
    /\ UNCHANGED <<variant, openAiWs, conn, sentAi, sentConn, sessions, pipeline,
                   handed, sinceCaller, createdSeen, deltas, completions, starts,
                   mediaSeen, outbox, peer, immediates, odd, frames>>

(* the callback openAiWs.on('open') schedules *)
D_SessionUpdateTimer ==
    /\ variant = "D"
    /\ immediates = <<>>
    /\ \E t \in Due("sendSessionUpdate") :
        /\ timers' = timers \ {t}
        /\ sentAi' = Send(sentAi, openAiWs,
                        Msg("session.update", "server_vad", <<>>, Null, 0))
    /\ UNCHANGED <<variant, sentConn, session, openAiWs, conn, sessions, pipeline,
                   handed, sinceCaller, createdSeen, deltas, completions, starts,
                   mediaSeen, outbox, peer, immediates, odd, frames>>

(* the callback heartbeat() arms: openAiWs.terminate() *)
D_PingTimeout ==
    /\ variant = "D"
    /\ immediates = <<>>
    /\ \E t \in Due("pingTimeout") : timers' = timers \ {t}
    /\ openAiWs' = IF openAiWs = "CLOSED" THEN "CLOSED" ELSE "CLOSING"
    /\ UNCHANGED <<variant, session, conn, sentAi, sentConn, sessions, pipeline,
                   handed, sinceCaller, createdSeen, deltas, completions, starts,
                   mediaSeen, outbox, peer, immediates, odd, frames>>

(* connection.on('message'): case 'media'.  The send is deferred with       *)
(* setImmediate when the speech socket is OPEN.                             *)
D_ConnMedia(payload) ==
    /\ variant = "D"
    /\ conn = "OPEN"
    /\ mediaSeen < MaxFrames
    /\ mediaSeen' = mediaSeen + 1
    /\ frames' = Append(frames, Frame(payload, openAiWs = "OPEN"))
    /\ immediates' = IF openAiWs = "OPEN" THEN Append(immediates, payload)
                     ELSE immediates
    /\ UNCHANGED <<variant, session, timers, sentAi, sentConn, openAiWs, conn,
                   sessions, pipeline, handed, sinceCaller, createdSeen, deltas,
                   completions, starts, outbox, peer, odd>>

(* the callback setImmediate runs: openAiWs.send of the frame *)
D_Immediate ==
    /\ variant = "D"
    /\ immediates # <<>>
    /\ immediates' = Tail(immediates)
    /\ sentAi' = Send(sentAi, openAiWs,
                      Msg("input_audio_buffer.append", "", Head(immediates),
                          Null, 0))
    /\ UNCHANGED <<variant, session, timers, sentConn, openAiWs, conn, sessions,
                   pipeline, handed, sinceCaller, createdSeen, deltas,
                   completions, starts, mediaSeen, outbox, peer, odd, frames>>

(* connection.on('close'), up to the await of processTranscriptAndSend *)
D_ConnClose ==
    /\ variant = "D"
    /\ immediates = <<>>
    /\ conn = "OPEN"
    /\ conn' = "CLOSED"
    /\ openAiWs' = IF openAiWs = "OPEN" THEN "CLOSING" ELSE openAiWs
    /\ timers' = IF session.pingTimeout # NoHandle
                 THEN ClearTimeout(timers, session.pingTimeout) ELSE timers
    /\ handed' = Append(handed, session.transcript)
    /\ pipeline' = "running"
    /\ UNCHANGED <<variant, session, sentAi, sentConn, sessions, sinceCaller,
                   createdSeen, deltas, completions, starts, mediaSeen, outbox,
                   peer, immediates, odd, frames>>

----------------------------------------------------------------------------
(* Steps every variant shares *)

(* The speech service's close frame, or a socket error, is read: the        *)
(* socket is CLOSING from then on, before any 'close' event.                *)
AiCloseFrame ==
    /\ openAiWs = "OPEN"
    /\ openAiWs' = "CLOSING"
    /\ UNCHANGED <<variant, session, conn, timers, sentAi, sentConn, sessions,
                   pipeline, handed, sinceCaller, createdSeen, deltas,
                   completions, starts, mediaSeen, outbox, peer, immediates, odd,
                   frames>>

(* The speech socket's 'close' / 'error': the handlers only log. *)
AiClose ==
    /\ immediates = <<>>
    /\ openAiWs \in {"CONNECTING", "OPEN", "CLOSING"}
    /\ openAiWs' = "CLOSED"
    /\ UNCHANGED <<variant, session, conn, timers, sentAi, sentConn, sessions, pipeline,
                   handed, sinceCaller, createdSeen, deltas, completions, starts,
                   mediaSeen,
                   outbox,
                   peer, immediates, odd, frames>>

(* ---- The post-call pipeline: makeChatGPTCompletion, sendToWebhook,      *)
(* processTranscriptAndSend ----                                            *)

(* JSON text is a sequence of tokens: "{", "}", ":", ",", string literals,  *)
(* number literals, null, and bare words (which no JSON value contains).    *)
StringLiterals ==
    {"\"customerName\"", "\"customerAvailability\"", "\"specialNotes\"",
     "\"Kim\"", "\"Monday\"", "\"\""}

NumberLiterals == {"42"}

IsJsonScalar(tok) == tok \in StringLiterals \cup NumberLiterals \cup {"null"}

ScalarKind(tok) ==
    IF tok \in StringLiterals THEN "string"
    ELSE IF tok \in NumberLiterals THEN "number"
    ELSE "null"

(* The members of an object, read left to right; a repeated key keeps the   *)
(* last value.                                                              *)
RECURSIVE JsonMembers(_)
JsonMembers(ts) ==
    IF Len(ts) < 3 \/ ts[1] \notin StringLiterals \/ ts[2] # ":"
           \/ ~IsJsonScalar(ts[3])
        THEN [ok |-> FALSE, fields |-> {}]
    ELSE IF Len(ts) = 3 THEN [ok |-> TRUE, fields |-> {<<ts[1], ts[3]>>}]
    ELSE IF ts[4] # "," THEN [ok |-> FALSE, fields |-> {}]
    ELSE LET rest == JsonMembers(SubSeq(ts, 5, Len(ts)))
         IN  [ok |-> rest.ok,
              fields |-> IF \E f \in rest.fields : f[1] = ts[1]
                         THEN rest.fields
                         ELSE rest.fields \cup {<<ts[1], ts[3]>>}]

(* JSON.parse(text): ok is false where it throws. *)
JsonParse(text) ==
    IF text = <<>> THEN [ok |-> FALSE, kind |-> "", fields |-> {}, text |-> ""]
    ELSE IF Len(text) = 1
        THEN IF IsJsonScalar(text[1])
             THEN [ok |-> TRUE, kind |-> ScalarKind(text[1]), fields |-> {},
                   text |-> text[1]]
             ELSE [ok |-> FALSE, kind |-> "", fields |-> {}, text |-> ""]
    ELSE IF text[1] # "{" \/ text[Len(text)] # "}"
        THEN [ok |-> FALSE, kind |-> "", fields |-> {}, text |-> ""]
    ELSE IF Len(text) = 2
        THEN [ok |-> TRUE, kind |-> "object", fields |-> {}, text |-> ""]
    ELSE LET members == JsonMembers(SubSeq(text, 2, Len(text) - 1))
         IN  [ok |-> members.ok,
              kind |-> IF members.ok THEN "object" ELSE "",
              fields |-> members.fields, text |-> ""]

(* The message contents the extraction service may return. *)
ContentComplete ==
    <<"{", "\"customerName\"", ":", "\"Kim\"", ",",
           "\"customerAvailability\"", ":", "\"Monday\"", ",",
           "\"specialNotes\"", ":", "\"\"", "}">>
ContentMissingField ==
    <<"{", "\"customerName\"", ":", "\"Kim\"", ",",
           "\"specialNotes\"", ":", "\"\"", "}">>
ContentWrongType ==
    <<"{", "\"customerName\"", ":", "\"Kim\"", ",",
           "\"customerAvailability\"", ":", "42", ",",
           "\"specialNotes\"", ":", "null", "}">>
ContentScalar == <<"\"Kim\"">>
ContentProse == <<"Kim", "is", "free", "on", "Monday">>
ContentTruncated == <<"{", "\"customerName\"", ":", "\"Kim\"", ",">>
ContentEmpty == <<>>
Contents ==
    {ContentComplete, ContentMissingField, ContentWrongType, ContentScalar,
     ContentProse, ContentTruncated, ContentEmpty}

(* What the extraction request may come to: fetch rejects; the body is no   *)
(* JSON (res.json() rejects); the body is null, has no choices, an empty    *)
(* choices array, a choice without message content, or a content.           *)
Extraction(kind, content) == [kind |-> kind, content |-> content]

Extractions ==
    {Extraction(k, <<>>) :
        k \in {"networkError", "badBody", "null", "noChoices", "emptyChoices",
               "noContent"}}
    \cup {Extraction("content", c) : c \in Contents}

ExtractionComplete == Extraction("content", ContentComplete)

(* The sink: whether WEBHOOK_URL is set, and what the POST comes to. *)
Hook(url, outcome) == [url |-> url, outcome |-> outcome]

Hooks == {Hook(u, o) : u \in BOOLEAN, o \in {"ok", "status500", "unreachable"}}

HookOk == Hook(TRUE, "ok")

(* makeChatGPTCompletion: the value returned, or threw. *)
makeChatGPTCompletion(v, extraction) ==
    IF extraction.kind \in {"networkError", "badBody"}
    THEN IF v = "A"
         THEN [threw |-> FALSE, result |-> Extraction("undefined", <<>>)]
         ELSE [threw |-> TRUE, result |-> Extraction("undefined", <<>>)]
    ELSE [threw |-> FALSE, result |-> extraction]

(* sendToWebhook trying once more when the POST fails. *)
sendToWebhook_Retry(v, payload, hook) ==
    IF ~hook.url
    THEN [posts |-> <<>>, threw |-> FALSE]
    ELSE [posts |-> IF hook.outcome = "ok" THEN <<payload>>
                    ELSE <<payload, payload>>,
          threw |-> v = "B" /\ hook.outcome = "unreachable"]

(* sendToWebhook: the POSTs issued, and whether it threw.  Without          *)
(* WEBHOOK_URL variants A and B return at once; part_000 calls              *)
(* fetch(undefined), which rejects before any request leaves, and logs it.  *)
sendToWebhook(v, payload, hook) ==
    IF ~hook.url
    THEN [posts |-> <<>>, threw |-> FALSE]
    ELSE [posts |-> <<payload>>,
          threw |-> v = "B" /\ hook.outcome = "unreachable"]

(* result?.choices?.[0]?.message?.content is a non-empty string *)
HasContent(result) == result.kind = "content" /\ result.content # <<>>

(* The body of processTranscriptAndSend's outer try block: the payloads    *)
(* sendToWebhook was called with, the POSTs issued, whether it threw.       *)
processBody(v, extraction, hook) ==
    LET made == makeChatGPTCompletion(v, extraction)
        result == made.result
        parsed == JsonParse(result.content)
        payload == [kind |-> parsed.kind, fields |-> parsed.fields,
                    text |-> parsed.text]
        sent == sendToWebhook(v, payload, hook)
        none == [hooked |-> <<>>, posts |-> <<>>, threw |-> FALSE]
    IN  IF made.threw THEN [none EXCEPT !.threw = TRUE]
        ELSE IF v = "A"
            THEN IF ~HasContent(result) \/ ~parsed.ok THEN none
                 ELSE [hooked |-> <<payload>>, posts |-> sent.posts,
                       threw |-> FALSE]
        ELSE IF v = "B"
            THEN IF result.kind # "content" \/ ~parsed.ok THEN none
                 ELSE [hooked |-> <<payload>>, posts |-> sent.posts,
                       threw |-> FALSE]
        ELSE IF result.kind \in {"null", "undefined"}
            THEN [none EXCEPT !.threw = TRUE]
        ELSE IF ~HasContent(result) THEN none
        ELSE IF ~parsed.ok THEN [none EXCEPT !.threw = TRUE]
        ELSE [hooked |-> <<payload>>, posts |-> sent.posts,
              threw |-> sent.threw]

(* processTranscriptAndSend with the outer try/catch lost. *)
processTranscriptAndSend_NoCatch(v, transcript, extraction, hook) ==
    LET body == processBody(v, extraction, hook)
    IN  [requests |-> <<transcript>>, hooked |-> body.hooked,
         posts |-> body.posts, threw |-> body.threw]

(* processTranscriptAndSend: the extraction requests and POSTs it issues,   *)
(* and whether its promise rejects.  The outer catch logs what the body     *)
(* throws.                                                                  *)
processTranscriptAndSend(v, transcript, extraction, hook) ==
    LET body == processBody(v, extraction, hook)
    IN  [requests |-> <<transcript>>, hooked |-> body.hooked,
         posts |-> body.posts, threw |-> FALSE]

(* met is history: the extraction result and the sink each run met. *)
NoOutbox ==
    [requests |-> <<>>, hooked |-> <<>>, posts |-> <<>>, threw |-> FALSE,
     met |-> <<>>]

(* conn.on('close') from the await on, with the sessions.delete lost. *)
ConnCloseSettles_KeepEntry(extraction, hook) ==
    /\ pipeline = "running"
    /\ LET r == processTranscriptAndSend(variant, handed[Len(handed)],
                                         extraction, hook)
       IN  /\ outbox' = [requests |-> outbox.requests \o r.requests,
                         hooked |-> outbox.hooked \o r.hooked,
                         posts |-> outbox.posts \o r.posts,
                         threw |-> r.threw,
                         met |-> Append(outbox.met,
                                        [extraction |-> extraction,
                                         hook |-> hook])]
           /\ pipeline' = IF r.threw THEN "rejected" ELSE "settled"
    /\ UNCHANGED <<variant, session, openAiWs, conn, timers, sentAi, sentConn, handed,
                   sinceCaller, createdSeen, deltas, completions, starts,
                   mediaSeen, sessions,
                   peer, immediates, odd, frames>>

(* conn.on('close') from the await on: the pipeline runs with the           *)
(* transcript handed to it, then sessions.delete(session.id) -- which a     *)
(* rejected await would skip.                                               *)
ConnCloseSettles(extraction, hook) ==
    /\ pipeline = "running"
    /\ LET r == processTranscriptAndSend(variant, handed[Len(handed)],
                                         extraction, hook)
       IN  /\ outbox' = [requests |-> outbox.requests \o r.requests,
                         hooked |-> outbox.hooked \o r.hooked,
                         posts |-> outbox.posts \o r.posts,
                         threw |-> r.threw,
                         met |-> Append(outbox.met,
                                        [extraction |-> extraction,
                                         hook |-> hook])]
           /\ pipeline' = IF r.threw THEN "rejected" ELSE "settled"
           /\ sessions' = IF r.threw THEN sessions ELSE sessions \ {SessionId}
    /\ UNCHANGED <<variant, session, openAiWs, conn, timers, sentAi, sentConn, handed,
                   sinceCaller, createdSeen, deltas, completions, starts,
                   mediaSeen,
                   peer, immediates, odd, frames>>

(* The pipeline run of a call whose extraction and POST both succeed. *)
PipelineSettled == ConnCloseSettles(ExtractionComplete, HookOk)

(* Time passes by d ms: every pending timer comes d closer; never past a   *)
(* due timer or a pending setImmediate callback.                            *)
Elapse(d) ==
    /\ d > 0
    /\ immediates = <<>>
    /\ \A t \in timers : t.remaining >= d
    /\ timers' = {[t EXCEPT !.remaining = @ - d, !.waited = @ + d] : t \in timers}
    /\ sinceCaller' = Min(sinceCaller + d, INACTIVITY_TIMEOUT)
    /\ UNCHANGED <<variant, session, openAiWs, conn, sentAi, sentConn, sessions, pipeline,
                   handed, createdSeen, deltas, completions, starts, mediaSeen,
                   outbox,
                   peer, immediates, odd, frames>>

NextDue == CHOOSE d \in {t.remaining : t \in timers} :
               \A t \in timers : d <= t.remaining

(* Time passes until the next pending timer falls due. *)
AdvanceToTimer == timers # {} /\ Elapse(NextDue)

(* Time passes by the gap between two caller events (Scenario B's 5 s). *)
CallerGap == INACTIVITY_TIMEOUT \div 4

AdvanceGap ==
    /\ timers # {} \/ sinceCaller < INACTIVITY_TIMEOUT
    /\ Elapse(CallerGap)

(* No second connection has arrived.  `session` is the object the second   *)
(* connection's closure holds when it does not share the first one's;      *)
(* `scheduled` the setTimeout calls of its closure; `heard` is history:    *)
(* the caller utterances transcribed on the second call; `events` is       *)
(* history: the number of messages its handlers have handled; `entry` is   *)
(* whose session object its sessions.set put under its id ("first": the    *)
(* first connection's, "own": the one it made).                            *)
NoPeer ==
    [conn |-> "NONE", ai |-> "NONE", id |-> Null, shared |-> FALSE,
     session |-> [transcript |-> <<>>, streamSid |-> Null],
     scheduled |-> <<>>, handed |-> <<>>, pipeline |-> "idle",
     heard |-> <<>>, events |-> 0, entry |-> Null]

(* ---- A second telephony connection, accepted while the first is there   *)
(* or after it: the same /media-stream handler, with a closure of its own  *)

SessionIds == {SessionId, "CA2"}

(* The session object the second connection's closure holds. *)
PeerSession == IF peer.shared THEN session ELSE peer.session

(* The /media-stream handler accepting the second connection, which         *)
(* resolves to `id`.  Variant A makes a new session object; variants B and  *)
(* P take the registered one: sessions.get(sessionId) || {...}.  Either     *)
(* way sessions.set(sessionId, session) follows.                            *)
PeerAccept(id) ==
    /\ peer.conn = "NONE"
    /\ peer' = [peer EXCEPT
                  !.conn = "OPEN", !.ai = "CONNECTING", !.id = id,
                  !.shared = variant \in {"B", "P"} /\ id = SessionId
                                /\ SessionId \in sessions,
                  !.entry = IF variant \in {"B", "P"} /\ id = SessionId
                                   /\ SessionId \in sessions
                            THEN "first" ELSE "own",
                  !.session = CASE variant = "A" -> NewSession
                                [] variant = "B" -> NewSessionB
                                [] variant = "P" -> NewSessionP]
    /\ sessions' = sessions \cup {id}
    /\ UNCHANGED <<variant, session, openAiWs, conn, timers, sentAi, sentConn,
                   pipeline, handed, sinceCaller, createdSeen, deltas,
                   completions, starts, mediaSeen, outbox, immediates, odd,
                   frames>>

(* The second connection's speech socket opens: on('open') schedules the    *)
(* configuration send.                                                      *)
PeerAiOpen ==
    /\ peer.ai = "CONNECTING"
    /\ peer' = [peer EXCEPT
                  !.ai = "OPEN",
                  !.scheduled = Append(@, IF variant = "B" THEN "openReady"
                                          ELSE "sendSessionUpdate")]
    /\ UNCHANGED <<variant, session, openAiWs, conn, timers, sentAi, sentConn,
                   sessions, pipeline, handed, sinceCaller, createdSeen, deltas,
                   completions, starts, mediaSeen, outbox, immediates, odd,
                   frames>>

(* The second connection's conn.on('message'), case 'start', in variants B  *)
(* and P: session.streamSid = data.start.streamSid, on the object its       *)
(* closure holds.                                                           *)
PeerStart(streamSid) ==
    /\ variant \in {"B", "P"}
    /\ peer.conn = "OPEN"
    /\ peer.events < MaxPeerEvents
    /\ LET greets == variant = "B" /\ PeerSession.openAiReady
           sched == IF greets THEN Append(peer.scheduled, "sendGreeting")
                    ELSE peer.scheduled
       IN  IF peer.shared
           THEN /\ session' = [session EXCEPT !.streamSid = streamSid]
                /\ peer' = [peer EXCEPT !.events = @ + 1, !.scheduled = sched]
           ELSE /\ peer' = [peer EXCEPT !.events = @ + 1, !.scheduled = sched,
                                        !.session.streamSid = streamSid]
                /\ UNCHANGED session
    /\ UNCHANGED <<variant, openAiWs, conn, timers, sentAi, sentConn, sessions,
                   pipeline, handed, sinceCaller, createdSeen, deltas,
                   completions, starts, mediaSeen, outbox, immediates, odd,
                   frames>>

(* The second connection's speech 'message' handler, in variants B and P:   *)
(* 'conversation.item.input_audio_transcription.completed'.                 *)
PeerTranscriptionCompleted(transcript) ==
    /\ variant \in {"B", "P"}
    /\ peer.ai \in {"OPEN", "CLOSING"}
    /\ peer.events < MaxPeerEvents
    /\ LET line == Line("User", Trim(transcript))
       IN  IF peer.shared
           THEN /\ session' = [session EXCEPT !.transcript = Append(@, line)]
                /\ peer' = [peer EXCEPT !.events = @ + 1,
                                        !.heard = Append(@, line)]
           ELSE /\ peer' = [peer EXCEPT !.events = @ + 1,
                                        !.heard = Append(@, line),
                                        !.session.transcript = Append(@, line)]
                /\ UNCHANGED session
    /\ UNCHANGED <<variant, openAiWs, conn, timers, sentAi, sentConn, sessions,
                   pipeline, handed, sinceCaller, createdSeen, deltas,
                   completions, starts, mediaSeen, outbox, immediates, odd,
                   frames>>

(* The second connection's conn.on('close'), up to the await: its speech    *)
(* socket is closed if OPEN, the transcript of its session object goes to   *)
(* processTranscriptAndSend.                                                *)
PeerClose ==
    /\ peer.conn = "OPEN"
    /\ peer' = [peer EXCEPT
                  !.conn = "CLOSED",
                  !.ai = IF @ = "OPEN" THEN "CLOSING" ELSE @,
                  !.handed = Append(@, PeerSession.transcript),
                  !.pipeline = "running"]
    /\ UNCHANGED <<variant, session, openAiWs, conn, timers, sentAi, sentConn,
                   sessions, pipeline, handed, sinceCaller, createdSeen, deltas,
                   completions, starts, mediaSeen, outbox, immediates, odd,
                   frames>>

(* The second connection's conn.on('close') from the await on:              *)
(* sessions.delete of the id it resolved to.                                *)
PeerCloseSettles ==
    /\ peer.pipeline = "running"
    /\ peer' = [peer EXCEPT !.pipeline = "settled"]
    /\ sessions' = sessions \ {peer.id}
    /\ UNCHANGED <<variant, session, openAiWs, conn, timers, sentAi, sentConn,
                   pipeline, handed, sinceCaller, createdSeen, deltas,
                   completions, starts, mediaSeen, outbox, immediates, odd,
                   frames>>

----------------------------------------------------------------------------
(* The SDK variants: src/unnamed/part_001 ("S1") and part_002 ("S2").  The  *)
(* /media-stream handler is an async function whose whole body is one       *)
(* try / catch; there is no registry and no state outside the closure.      *)
(* `session` holds the first connection's handler, `peer.session` the       *)
(* second one's.                                                            *)

(* The handler on entry.  `stage` is its position; `transport` and          *)
(* `realtime` say which objects it has constructed; `listeners` the         *)
(* listeners it has registered; `caught` the error its catch block got;     *)
(* `closes` is history: its calls of connection.close().                    *)
NewHandlerS ==
    [stage |-> "entered", transport |-> FALSE, realtime |-> FALSE,
     listeners |-> {}, caught |-> Null, closes |-> 0]

(* What the synchronous part of the try block comes to, and what the        *)
(* awaited session.connect comes to.                                        *)
EnterOutcomes == {"transportThrows", "sessionThrows", "connectPending"}

ConnectOutcomes == {"resolved", "rejected"}

(* The try block without its catch: the error leaves the handler, whose     *)
(* promise rejects.                                                         *)
catchS_Rethrow(h, socket, err) ==
    [handler |-> [h EXCEPT !.stage = "rejected", !.caught = err],
     socket |-> socket]

(* catch (err) { console.error(...); connection.close(); } *)
catchS(h, socket, err) ==
    [handler |-> [h EXCEPT !.stage = "caught", !.caught = err,
                           !.closes = @ + 1],
     socket |-> IF socket = "OPEN" THEN "CLOSING" ELSE socket]

(* The try block up to the await: new TwilioRealtimeTransportLayer, new     *)
(* RealtimeSession, (part_002: session.on twice), session.connect called.   *)
enterS(v, h, socket, outcome) ==
    CASE outcome = "transportThrows" -> catchS(h, socket, "transport")
      [] outcome = "sessionThrows" ->
            catchS([h EXCEPT !.transport = TRUE], socket, "session")
      [] outcome = "connectPending" ->
            [handler |-> [h EXCEPT
                            !.transport = TRUE, !.realtime = TRUE,
                            !.listeners = IF v = "S2"
                                          THEN {"stateChanged", "message"}
                                          ELSE {},
                            !.stage = "awaiting"],
             socket |-> socket]

(* The try block from the await on: the log line, (part_002:                *)
(* connection.on('close')); or the catch block when connect rejected.       *)
settleS(v, h, socket, outcome) ==
    IF outcome = "rejected" THEN catchS(h, socket, "connect")
    ELSE [handler |-> [h EXCEPT
                         !.stage = "connected",
                         !.listeners = IF v = "S2" THEN @ \cup {"close"}
                                       ELSE @],
          socket |-> socket]

(* fastify.get('/media-stream', ...) runs for the first connection *)
S_Enter(outcome) ==
    /\ variant \in {"S1", "S2"}
    /\ session.stage = "entered"
    /\ LET r == enterS(variant, session, conn, outcome)
       IN  session' = r.handler /\ conn' = r.socket
    /\ UNCHANGED <<variant, openAiWs, timers, sentAi, sentConn, sessions,
                   pipeline, handed, sinceCaller, createdSeen, deltas,
                   completions, starts, mediaSeen, outbox, peer, immediates,
                   odd, frames>>

(* the first connection's session.connect settles *)
S_ConnectSettles(outcome) ==
    /\ variant \in {"S1", "S2"}
    /\ session.stage = "awaiting"
    /\ LET r == settleS(variant, session, conn, outcome)
       IN  session' = r.handler /\ conn' = r.socket
    /\ UNCHANGED <<variant, openAiWs, timers, sentAi, sentConn, sessions,
                   pipeline, handed, sinceCaller, createdSeen, deltas,
                   completions, starts, mediaSeen, outbox, peer, immediates,
                   odd, frames>>

(* The first telephony socket closes: the caller hung up, or the close     *)
(* the handler asked for completes.  part_002's 'close' listener only logs. *)
S_ConnClosed ==
    /\ variant \in {"S1", "S2"}
    /\ conn \in {"OPEN", "CLOSING"}
    /\ conn' = "CLOSED"
    /\ UNCHANGED <<variant, session, openAiWs, timers, sentAi, sentConn,
                   sessions, pipeline, handed, sinceCaller, createdSeen, deltas,
                   completions, starts, mediaSeen, outbox, peer, immediates,
                   odd, frames>>

(* fastify.get('/media-stream', ...) runs for a second connection *)
S_PeerEnter(outcome) ==
    /\ variant \in {"S1", "S2"}
    /\ peer.conn = "NONE"
    /\ LET r == enterS(variant, NewHandlerS, "OPEN", outcome)
       IN  peer' = [peer EXCEPT !.session = r.handler, !.conn = r.socket]
    /\ UNCHANGED <<variant, session, openAiWs, conn, timers, sentAi, sentConn,
                   sessions, pipeline, handed, sinceCaller, createdSeen, deltas,
                   completions, starts, mediaSeen, outbox, immediates, odd,
                   frames>>

(* the second connection's session.connect settles *)
S_PeerConnectSettles(outcome) ==
    /\ variant \in {"S1", "S2"}
    /\ peer.conn # "NONE"
    /\ peer.session.stage = "awaiting"
    /\ LET r == settleS(variant, peer.session, peer.conn, outcome)
       IN  peer' = [peer EXCEPT !.session = r.handler, !.conn = r.socket]
    /\ UNCHANGED <<variant, session, openAiWs, conn, timers, sentAi, sentConn,
                   sessions, pipeline, handed, sinceCaller, createdSeen, deltas,
                   completions, starts, mediaSeen, outbox, immediates, odd,
                   frames>>

(* the second telephony socket closes *)
S_PeerConnClosed ==
    /\ variant \in {"S1", "S2"}
    /\ peer.conn \in {"OPEN", "CLOSING"}
    /\ peer' = [peer EXCEPT !.conn = "CLOSED"]
    /\ UNCHANGED <<variant, session, openAiWs, conn, timers, sentAi, sentConn,
                   sessions, pipeline, handed, sinceCaller, createdSeen, deltas,
                   completions, starts, mediaSeen, outbox, immediates, odd,
                   frames>>

(* A telephony connection has been accepted and its handler is about to     *)
(* run.  The SDK variants keep no registry, open no speech socket of their  *)
(* own and arm no timers.                                                   *)
InitSdk ==
    /\ variant \in {"S1", "S2"}
    /\ session = NewHandlerS
    /\ openAiWs = "NONE"
    /\ conn = "OPEN"
    /\ timers = {}
    /\ sentAi = <<>>
    /\ sentConn = <<>>
    /\ sessions = {}
    /\ pipeline = "idle"
    /\ handed = <<>>
    /\ sinceCaller = 0
    /\ createdSeen = 0
    /\ deltas = <<>>
    /\ completions = <<>>
    /\ starts = <<>>
    /\ mediaSeen = 0
    /\ outbox = NoOutbox
    /\ peer = NoPeer
    /\ immediates = <<>>
    /\ odd = <<>>
    /\ frames = <<>>

NextSdk ==
    \/ \E outcome \in EnterOutcomes : S_Enter(outcome)
    \/ \E outcome \in ConnectOutcomes : S_ConnectSettles(outcome)
    \/ S_ConnClosed
    \/ \E outcome \in EnterOutcomes : S_PeerEnter(outcome)
    \/ \E outcome \in ConnectOutcomes : S_PeerConnectSettles(outcome)
    \/ S_PeerConnClosed

SpecSdk == InitSdk /\ [][NextSdk]_vars

----------------------------------------------------------------------------
(* The state once the /media-stream handler has run: the session is        *)
(* registered, the telephony socket is open, the speech socket connecting. *)
InitOf(v) ==
    /\ variant = v
    /\ session = CASE v = "A" -> NewSession
                   [] v = "B" -> NewSessionB
                   [] v = "P" -> NewSessionP
                   [] v = "D" -> NewSessionD
    /\ openAiWs = "CONNECTING"
    /\ conn = "OPEN"
    /\ timers = {}
    /\ sentAi = <<>>
    /\ sentConn = <<>>
    /\ sessions = {SessionId}
    /\ pipeline = "idle"
    /\ handed = <<>>
    /\ sinceCaller = 0
    /\ createdSeen = 0
    /\ deltas = <<>>
    /\ completions = <<>>
    /\ starts = <<>>
    /\ mediaSeen = 0
    /\ outbox = NoOutbox
    /\ peer = NoPeer
    /\ immediates = <<>>
    /\ odd = <<>>
    /\ frames = <<>>


----------------------------------------------------------------------------
(* The greeting handshake of variants A and B: the speech socket opens,    *)
(* 'session.created' and 'start' arrive (each possibly repeated, in any    *)
(* order and at any time), either socket may close.                        *)

InitGreeting == InitOf("A") \/ InitOf("B")

NextGreeting ==
    \/ A_AiOpen
    \/ A_SessionUpdateTimer
    \/ A_GreetingTimer
    \/ A_AiSessionCreated
    \/ \E streamSid \in StreamSids : A_ConnStart(streamSid)
    \/ A_ConnClose
    \/ A_InactivityTimer
    \/ A_EndCallTimer
    \/ B_AiOpen
    \/ B_OpenReadyTimer
    \/ B_GreetingTimer
    \/ B_AiSessionCreated
    \/ \E streamSid \in StreamSids : B_ConnStart(streamSid)
    \/ B_ConnClose
    \/ AiClose
    \/ PipelineSettled
    \/ AdvanceToTimer
    \/ AdvanceGap

SpecGreeting == InitGreeting /\ [][NextGreeting]_vars

(* Claims about the greeting *)

(* The greeting instructions written to the speech socket so far. *)
GreetingsSent ==
    Cardinality({i \in 1..Len(sentAi) :
                    sentAi[i].type = "response.create" /\ sentAi[i].arg = "greeting"})

PendingGreetings == {t \in timers : t.kind = "sendGreeting"}

(* C1: idempotent greeting.  Whatever 'start' and 'session.created' events  *)
(* arrive, repeated or not, and however many sendGreeting timers are        *)
(* pending, session.greeted never goes back from true to false (so it       *)
(* changes false -> true at most once) and at most one greeting             *)
(* 'response.create' is written to the speech socket.                       *)
C1_IdempotentGreeting ==
    /\ [][session.greeted => session.greeted']_vars
    /\ [](GreetingsSent <= 1)

(* C1's case: two 'start' events scheduled two greetings; the first has     *)
(* greeted, the second timer is still pending.                              *)
C1_Witness ==
    /\ Len(starts) = 2
    /\ session.greeted
    /\ GreetingsSent = 1
    /\ PendingGreetings # {}

(* C2: a greeting is sent only after 'session.created' has been observed    *)
(* and the telephony streamSid is known -- in both variants.                *)
C2_GreetingAfterReady ==
    GreetingsSent > 0 => createdSeen > 0 /\ session.streamSid # Null

(* C12: once the telephony socket has closed, the speech socket is closed   *)
(* or closing -- whether it was connecting, open or closing at the close -- *)
(* and never open afterwards.                                               *)
C12_CloseCancelsSpeech ==
    conn = "CLOSED" => openAiWs \in {"CLOSING", "CLOSED"}

(* The pending delayed actions: the configuration send, the greeting, the  *)
(* hangup.                                                                  *)
DelayedActions ==
    {t \in timers :
        t.kind \in {"sendSessionUpdate", "openReady", "sendGreeting", "endCall"}}

(* C27: delayed actions are tied to the session's lifetime.  Once the       *)
(* telephony socket has closed, no configuration send, greeting or hangup   *)
(* is pending any more, and no timer that falls due afterwards writes a     *)
(* message to either socket or changes the session.                         *)
C27_DelayedActionsCancelled ==
    /\ [](conn = "CLOSED" => DelayedActions = {})
    /\ [][(/\ conn = "CLOSED"
           /\ \E t \in timers : t.remaining = 0 /\ t.id \notin TimerIds(timers'))
            => /\ session' = session
               /\ sentAi' = sentAi
               /\ sentConn' = sentConn]_vars

----------------------------------------------------------------------------
(* The inactivity watchdog of variant A: caller-side events ('start',       *)
(* 'media', transcribed caller utterances) arrive at any time, either       *)
(* socket may close.                                                        *)

NextWatchdog ==
    \/ A_AiOpen
    \/ A_SessionUpdateTimer
    \/ \E streamSid \in {"MZ1"} : A_ConnStart(streamSid)
    \/ \E payload \in Payloads : A_ConnMedia(payload)
    \/ \E transcript \in UserTexts : A_AiTranscriptionCompleted(transcript)
    \/ A_ConnClose
    \/ A_InactivityTimer
    \/ A_EndCallTimer
    \/ AiClose
    \/ PipelineSettled
    \/ AdvanceToTimer
    \/ AdvanceGap

SpecWatchdog == InitOf("A") /\ [][NextWatchdog]_vars

(* The event loop runs a due timer's callback, and time passes. *)
SpecWatchdogFair ==
    /\ SpecWatchdog
    /\ WF_vars(A_SessionUpdateTimer)
    /\ WF_vars(A_InactivityTimer)
    /\ WF_vars(A_EndCallTimer)
    /\ WF_vars(AdvanceToTimer)

----------------------------------------------------------------------------
(* Claims about the inactivity watchdog *)

PendingWatchdogs == {t \in timers : t.kind = "inactivity"}

(* The lines gracefulHangup has written, on either socket. *)
QuietLines(log) ==
    {i \in 1..Len(log) : log[i].type = "response.create" /\ log[i].arg = "quiet"}

(* The caller-side events handled so far. *)
CallerEvents ==
    Len(starts) + mediaSeen
        + Cardinality({i \in 1..Len(completions) : completions[i].speaker = "User"})

(* C3: watchdog safety.  At most one watchdog timer is pending; the pending *)
(* one is the one the session holds, armed by the last caller-side event    *)
(* ('start', 'media', caller utterance transcribed), so it has run exactly  *)
(* as long as the caller has been quiet; and every firing comes when no     *)
(* caller-side event was handled during the preceding INACTIVITY_TIMEOUT.   *)
C3_WatchdogSafety ==
    /\ Cardinality(PendingWatchdogs) <= 1
    /\ \A t \in PendingWatchdogs :
          /\ t.id = session.inactivityTimer
          /\ t.waited = sinceCaller
          /\ t.remaining = INACTIVITY_TIMEOUT - sinceCaller
    /\ \A i \in QuietLines(sentConn) : sentConn[i].waited >= INACTIVITY_TIMEOUT

(* C3's case: caller events came less than INACTIVITY_TIMEOUT apart (the    *)
(* watchdog was re-armed while running), and later the watchdog fired.      *)
C3_Witness ==
    /\ Len(starts) = 1
    /\ mediaSeen = 1
    /\ CallerEvents >= 3
    /\ QuietLines(sentConn) # {}

(* The watchdog firings and caller-side events so far: either kind of step  *)
(* raises it.                                                               *)
WatchdogProgress == CallerEvents + Cardinality(QuietLines(sentConn))

MaxWatchdogProgress == 2 * (MaxStarts + MaxMedia + MaxCompletions)

(* C4: watchdog liveness.  When caller audio has been received, the         *)
(* telephony socket is open and the watchdog is pending, then eventually    *)
(* the watchdog fires and gracefulHangup writes its line -- unless the      *)
(* telephony socket closes or a further caller-side event arrives first.    *)
C4_WatchdogLiveness ==
    \A m \in 0..MaxWatchdogProgress :
        (/\ mediaSeen > 0
         /\ conn = "OPEN"
         /\ PendingWatchdogs # {}
         /\ WatchdogProgress = m)
            ~> (conn = "CLOSED" \/ WatchdogProgress > m)

(* C4's case: after caller audio the watchdog has fired on the open         *)
(* telephony socket and none is pending.                                    *)
C4_Witness ==
    /\ mediaSeen > 0
    /\ conn = "OPEN"
    /\ PendingWatchdogs = {}
    /\ QuietLines(sentConn) # {}
    /\ sinceCaller >= INACTIVITY_TIMEOUT

(* C5: on watchdog expiry the closing utterance goes to the speech socket,  *)
(* and the 'stop' goes to the telephony socket only afterwards, once the    *)
(* 3.5 s grace delay has passed.                                            *)
C5_ClosingUtteranceThenStop ==
    \A i \in 1..Len(sentConn) :
        sentConn[i].type = "stop" /\ sentConn[i].arg = "Inaktivitet"
            => /\ QuietLines(sentAi) # {}
               /\ sentConn[i].waited >= HangupDelay

(* C6: once the telephony socket has closed, no watchdog timer is pending. *)
C6_NoStrayWatchdog ==
    conn = "CLOSED" => PendingWatchdogs = {}

(* C15: handshake timeout.  A session whose speech socket has opened but    *)
(* never delivers 'session.created' does not stay as it is for ever: the    *)
(* session is forced into closing (the speech socket closed, a 'stop'       *)
(* written to the telephony socket) within a bounded wait.                  *)
C15_HandshakeTimeout ==
    (openAiWs = "OPEN" /\ conn = "OPEN" /\ createdSeen = 0)
        ~> \/ createdSeen > 0
           \/ conn # "OPEN"
           \/ /\ openAiWs # "OPEN"
              /\ \E i \in 1..Len(sentConn) : sentConn[i].type = "stop"

(* The event loop as above, and the requests of the post-call pipeline      *)
(* come to an end.                                                          *)
SpecHangupFair == SpecWatchdogFair /\ WF_vars(PipelineSettled)

(* C24: a hangup the session initiates completes the teardown.  Once the    *)
(* grace delay has passed and endCall has written the 'stop', the session   *)
(* reaches CLOSED by itself: the speech socket is closed or closing, no     *)
(* watchdog is pending, the transcript has been handed to the extraction    *)
(* pipeline and the registry entry is removed -- whether or not the         *)
(* telephony peer sends or closes anything afterwards.                      *)
C24_HangupCompletesTeardown ==
    (\E i \in 1..Len(sentConn) : sentConn[i].type = "stop")
        ~> /\ openAiWs \in {"CLOSING", "CLOSED"}
           /\ PendingWatchdogs = {}
           /\ handed # <<>>
           /\ SessionId \notin sessions

----------------------------------------------------------------------------
(* The agent-audio relay of the three variants: audio chunks arrive from   *)
(* the speech service in any order with 'start' and the sockets' closes.   *)

InitAll == InitOf("A") \/ InitOf("B") \/ InitOf("P")

NextRelay ==
    \/ A_AiOpen
    \/ A_SessionUpdateTimer
    \/ \E delta \in Deltas : A_AiAudioDelta(delta)
    \/ \E streamSid \in {"MZ1"} : A_ConnStart(streamSid)
    \/ A_ConnClose
    \/ A_InactivityTimer
    \/ A_EndCallTimer
    \/ B_AiOpen
    \/ B_OpenReadyTimer
    \/ B_GreetingTimer
    \/ \E delta \in Deltas : B_AiAudioDelta(delta)
    \/ \E streamSid \in {"MZ1"} : B_ConnStart(streamSid)
    \/ B_ConnClose
    \/ P_AiOpen
    \/ P_SessionUpdateTimer
    \/ \E delta \in Deltas : P_AiAudioDelta(delta)
    \/ \E streamSid \in {"MZ1"} : P_ConnStart(streamSid)
    \/ P_ConnClose
    \/ AiClose
    \/ PipelineSettled
    \/ AdvanceToTimer

SpecRelay == InitAll /\ [][NextRelay]_vars

----------------------------------------------------------------------------
(* Claims about the agent-audio relay *)

(* The 'media' events written to the telephony socket, in order. *)
MediaSent == SelectSeq(sentConn, LAMBDA m : m.type = "media")

(* The chunks a variant relays: variant A has no `&& event.delta` guard. *)
Relays(delta) == variant = "A" \/ delta # <<>>

(* C8, as the specification states it: every chunk received while the       *)
(* session is live produces exactly one 'media' event carrying the same     *)
(* payload, in arrival order.                                               *)
C8_RelayUnmodified ==
    /\ Len(MediaSent) = Len(deltas)
    /\ \A i \in 1..Len(MediaSent) : MediaSent[i].payload = deltas[i]

(* C8, as the code has it: every chunk received while the session is live   *)
(* and relayed by the variant (every chunk in A, every non-empty chunk in   *)
(* B and P) produces exactly one 'media' event, in arrival order; the event *)
(* carries the chunk's bytes -- the chunk itself in B, its canonical        *)
(* base64 encoding in A and P.                                              *)
C8_RelayInOrder ==
    LET relayed == SelectSeq(deltas, Relays)
    IN  /\ Len(MediaSent) = Len(relayed)
        /\ \A i \in 1..Len(MediaSent) :
              /\ Base64Decode(MediaSent[i].payload) = Base64Decode(relayed[i])
              /\ MediaSent[i].payload =
                    IF variant = "B" THEN relayed[i]
                    ELSE Base64Encode(Base64Decode(relayed[i]))

(* C8's case: two chunks were relayed in order, the second one rewritten. *)
C8_Witness ==
    /\ deltas = <<DeltaCanonical, DeltaUrlSafe>>
    /\ Len(MediaSent) = 2
    /\ MediaSent[1].payload = DeltaCanonical
    /\ MediaSent[2].payload # DeltaUrlSafe

(* C9: every 'media' event written to the telephony socket carries the      *)
(* streamSid received in the 'start' event, never null.                     *)
C9_MediaCarriesStreamSid ==
    \A i \in 1..Len(MediaSent) :
        /\ MediaSent[i].sid # Null
        /\ \E k \in 1..Len(starts) : MediaSent[i].sid = starts[k]

(* C13: when the speech socket has closed or failed, the telephony socket   *)
(* does not stay open: the session closes it and starts teardown.           *)
C13_SpeechCloseCancelsSession ==
    openAiWs = "CLOSED" => conn # "OPEN" /\ pipeline # "idle"

(* C26: telephony outbound schema.  Every message written to the telephony  *)
(* socket is a 'media' event or a 'stop' event; no message of the speech    *)
(* service's shape, such as 'response.create', is written to it.            *)
C26_TelephonyOutboundSchema ==
    \A i \in 1..Len(sentConn) : sentConn[i].type \in {"media", "stop"}

----------------------------------------------------------------------------
(* The conversation of the three variants: completed caller and agent       *)
(* utterances arrive interleaved with audio in both directions.             *)

NextConversation ==
    \/ A_AiOpen
    \/ A_SessionUpdateTimer
    \/ \E transcript \in UserTexts : A_AiTranscriptionCompleted(transcript)
    \/ \E output \in Outputs : A_AiResponseDone(output)
    \/ \E delta \in {DeltaCanonical} : A_AiAudioDelta(delta)
    \/ \E payload \in Payloads : A_ConnMedia(payload)
    \/ A_ConnClose
    \/ A_InactivityTimer
    \/ A_EndCallTimer
    \/ B_AiOpen
    \/ B_OpenReadyTimer
    \/ \E transcript \in UserTexts : B_AiTranscriptionCompleted(transcript)
    \/ \E output \in Outputs : B_AiResponseDone(output)
    \/ \E delta \in {DeltaCanonical} : B_AiAudioDelta(delta)
    \/ \E payload \in Payloads : B_ConnMedia(payload)
    \/ B_ConnClose
    \/ P_AiOpen
    \/ P_SessionUpdateTimer
    \/ \E transcript \in UserTexts : P_AiTranscriptionCompleted(transcript)
    \/ \E output \in Outputs : P_AiResponseDone(output)
    \/ \E delta \in {DeltaCanonical} : P_AiAudioDelta(delta)
    \/ \E payload \in Payloads : P_ConnMedia(payload)
    \/ P_ConnClose
    \/ AiClose
    \/ PipelineSettled
    \/ AdvanceToTimer

SpecConversation == InitAll /\ [][NextConversation]_vars

----------------------------------------------------------------------------
(* The end of a call in the three variants: utterances complete, the        *)
(* telephony socket closes at any moment, speech events still arrive        *)
(* afterwards, and the pipeline meets any extraction result and any sink.   *)

NextPipeline ==
    \/ A_AiOpen
    \/ A_SessionUpdateTimer
    \/ \E transcript \in UserTexts : A_AiTranscriptionCompleted(transcript)
    \/ \E output \in {OutputReply} : A_AiResponseDone(output)
    \/ A_ConnClose
    \/ A_InactivityTimer
    \/ A_EndCallTimer
    \/ B_AiOpen
    \/ B_OpenReadyTimer
    \/ \E transcript \in UserTexts : B_AiTranscriptionCompleted(transcript)
    \/ \E output \in {OutputReply} : B_AiResponseDone(output)
    \/ B_ConnClose
    \/ P_AiOpen
    \/ P_SessionUpdateTimer
    \/ \E transcript \in UserTexts : P_AiTranscriptionCompleted(transcript)
    \/ \E output \in {OutputReply} : P_AiResponseDone(output)
    \/ P_ConnClose
    \/ \E extraction \in Extractions, hook \in Hooks :
          ConnCloseSettles(extraction, hook)
    \/ AdvanceToTimer

SpecPipeline == InitAll /\ [][NextPipeline]_vars

(* The requests of the post-call pipeline come to an end, whatever their    *)
(* outcome.                                                                 *)
PipelineSettles ==
    \E extraction \in Extractions, hook \in Hooks :
        ConnCloseSettles(extraction, hook)

SpecPipelineFair == SpecPipeline /\ WF_vars(PipelineSettles)

(* Claims about the end of a call *)

C11_CloseYieldsExtraction ==
    /\ [](conn = "OPEN" => handed = <<>>)
    /\ [](conn = "CLOSED" => Len(handed) = 1)
    /\ [][conn = "OPEN" /\ conn' = "CLOSED"
            => handed' = <<session.transcript>>]_vars
    /\ [][conn = "CLOSED" => handed' = handed]_vars
    /\ [](pipeline \in {"settled", "rejected"} => outbox.requests = handed)

(* C11's case: the pipeline ran with the transcript of the moment of the    *)
(* close, and a completion handled after the close has since grown the      *)
(* session's transcript.                                                    *)
C11_Witness ==
    /\ conn = "CLOSED"
    /\ pipeline = "settled"
    /\ Len(handed) = 1
    /\ Len(handed[1]) = 1
    /\ Len(session.transcript) = 2
    /\ outbox.requests = handed

(* Claims about the post-call pipeline *)

(* The contents JSON.parse accepts, and the extraction results that carry   *)
(* none of them.                                                            *)
ParseableContents ==
    {ContentComplete, ContentMissingField, ContentWrongType, ContentScalar}

ExtractionFailed(extraction) ==
    extraction.kind # "content" \/ extraction.content \notin ParseableContents

RequiredFields ==
    {"\"customerName\"", "\"customerAvailability\"", "\"specialNotes\""}

(* An object in which the three fields are all present as strings. *)
Conforms(payload) ==
    /\ payload.kind = "object"
    /\ \A k \in RequiredFields :
          \E f \in payload.fields : f[1] = k /\ f[2] \in StringLiterals

(* C19: only schema-conforming results are forwarded: every payload         *)
(* sendToWebhook is called with, and every payload POSTed, is an object     *)
(* with customerName, customerAvailability and specialNotes as strings.     *)
C19_OnlyConformingForwarded ==
    /\ \A i \in 1..Len(outbox.hooked) : Conforms(outbox.hooked[i])
    /\ \A i \in 1..Len(outbox.posts) : Conforms(outbox.posts[i])

(* C20: single delivery attempt.  A session's pipeline issues at most one   *)
(* extraction request and at most one POST -- none is repeated when the     *)
(* POST fails -- and it ends normally whatever the sink does, so that the   *)
(* session is removed from the registry.                                    *)
C20_SingleDeliveryAttempt ==
    /\ Len(outbox.requests) <= 1
    /\ Len(outbox.posts) <= 1
    /\ Len(outbox.met) <= 1
    /\ Len(outbox.met) = 1 =>
          /\ Len(outbox.requests) = 1
          /\ ~outbox.threw
          /\ pipeline = "settled"
          /\ SessionId \notin sessions

(* C20's case: the one POST found the sink unreachable (in the variant      *)
(* whose sendToWebhook throws then); the pipeline settled all the same.     *)
C20_Witness ==
    /\ variant = "B"
    /\ pipeline = "settled"
    /\ Len(outbox.met) = 1
    /\ outbox.met[1].hook = Hook(TRUE, "unreachable")
    /\ Len(outbox.posts) = 1
    /\ SessionId \notin sessions

----------------------------------------------------------------------------
(* Claims about the conversation *)

IsPrefix(s, t) == Len(s) <= Len(t) /\ SubSeq(t, 1, Len(s)) = s

Last(s) == s[Len(s)]

(* Does the completion event c add a record in this variant? *)
Recorded(c) ==
    \/ c.speaker = "User"
    \/ variant = "P"
    \/ variant = "A" /\ Trim(c.text) # NoText
    \/ variant = "B" /\ c.text # NoText

(* The record this variant makes of the completion event c. *)
RecordOf(c) ==
    IF c.speaker = "User" THEN Line("User", Trim(c.text))
    ELSE CASE variant = "A" -> Line("Bot", Trim(c.text))
           [] variant = "B" -> Line("Ava", c.text)
           [] variant = "P" -> Line("Agent", IF c.text # NoText THEN c.text
                                               ELSE AgentMessageNotFound)

(* C7: the transcript is append-only and arrival-ordered.  Every step       *)
(* leaves the old transcript a prefix of the new one, and the transcript    *)
(* is, record for record, the completion events that add a record, in       *)
(* their arrival order -- whatever audio and media events come between.     *)
C7_TranscriptAppendOnly ==
    /\ [][IsPrefix(session.transcript, session.transcript')]_vars
    /\ [](LET producing == SelectSeq(completions, Recorded)
          IN  /\ Len(session.transcript) = Len(producing)
              /\ \A i \in 1..Len(producing) :
                    session.transcript[i] = RecordOf(producing[i]))

(* C7's case: a caller record, then an agent record, with an audio chunk    *)
(* and a caller frame handled between or around them.                       *)
C7_Witness ==
    /\ Len(session.transcript) = 2
    /\ session.transcript[1].speaker = "User"
    /\ session.transcript[2].speaker # "User"
    /\ Len(deltas) >= 1
    /\ mediaSeen >= 1

FarewellLines ==
    {i \in 1..Len(sentAi) :
        sentAi[i].type = "response.create" /\ sentAi[i].arg = "farewell"}

FarewellStops ==
    {i \in 1..Len(sentConn) :
        sentConn[i].type = "stop" /\ sentConn[i].arg = "Farvel"}

(* C10: farewell-triggered closing (variant A).  A 'response.done' whose     *)
(* transcript contains a closing phrase writes the closing-utterance         *)
(* 'response.create' to the speech socket (when that socket is open: one     *)
(* the session has begun to close takes no more messages) and schedules      *)
(* the hangup 3.5 s later; one without a closing phrase does neither.        *)
(* Every 'stop' of such a hangup reaches the telephony socket after the      *)
(* closing utterance and no sooner than 3.5 s after it was scheduled.        *)
C10_FarewellClosing ==
    /\ [][(/\ variant = "A"
           /\ completions' # completions
           /\ Last(completions').speaker = "Bot")
            => IF MatchesClosingPhrase(Trim(Last(completions').text))
               THEN /\ openAiWs = "OPEN" =>
                          /\ Len(sentAi') = Len(sentAi) + 1
                          /\ Len(sentAi') \in FarewellLines'
                    /\ \E t \in timers' \ timers :
                          /\ t.kind = "endCall"
                          /\ t.arg = "Farvel"
                          /\ t.remaining = HangupDelay
                    /\ sentConn' = sentConn
               ELSE /\ sentAi' = sentAi
                    /\ timers' = timers
                    /\ sentConn' = sentConn]_vars
    /\ [](\A i \in FarewellStops :
              /\ sentConn[i].waited >= HangupDelay
              /\ FarewellLines # {})

(* C10's case: "Farvel, god dag!" completed, the closing utterance went to  *)
(* the speech socket and the stop to the telephony socket.                  *)
C10_Witness ==
    /\ variant = "A"
    /\ \E i \in 1..Len(completions) :
          completions[i] = Line("Bot", TextFarewell)
    /\ FarewellLines # {}
    /\ FarewellStops # {}

UserCompletions ==
    {i \in 1..Len(completions) : completions[i].speaker = "User"}

(* C14: CLOSED is terminal.  Once the telephony socket has closed, a        *)
(* speech event that is still delivered changes nothing: not the session    *)
(* (transcript, openAiReady, greeted), not what was written to either       *)
(* socket, not the pending timers.                                          *)
C14_ClosedIsTerminal ==
    [][(/\ conn = "CLOSED"
        /\ completions' # completions \/ createdSeen' # createdSeen)
         => /\ session' = session
            /\ sentAi' = sentAi
            /\ sentConn' = sentConn
            /\ timers' = timers]_vars

(* C16: manual turn control (variant A, turn_detection none).  While the    *)
(* speech socket is open, every completed caller utterance has been         *)
(* followed by exactly one explicit 'response.create'.                      *)
C16_ManualTurnRequestsResponse ==
    variant = "A" /\ openAiWs = "OPEN"
        => Cardinality(TurnRequests(sentAi)) = Cardinality(UserCompletions)

ConfigurationsSent == {i \in 1..Len(sentAi) : sentAi[i].type = "session.update"}

(* C28: configuration precedes audio.  'session.update' is written to the   *)
(* speech socket at most once, and before every                             *)
(* 'input_audio_buffer.append' and every 'response.create': no caller       *)
(* audio reaches a speech session that has not been configured.             *)
C28_ConfigurationPrecedesAudio ==
    /\ Cardinality(ConfigurationsSent) <= 1
    /\ \A i \in 1..Len(sentAi) :
          sentAi[i].type \in {"input_audio_buffer.append", "response.create"}
              => \E j \in ConfigurationsSent : j < i

----------------------------------------------------------------------------
(* The telephony side of variants A and P: 'start' (possibly repeated, with *)
(* another streamSid), 'media' and other events arrive at any time.         *)

InitTelephony == InitOf("A") \/ InitOf("P")

NextTelephony ==
    \/ A_AiOpen
    \/ A_SessionUpdateTimer
    \/ \E streamSid \in StreamSids : A_ConnStart(streamSid)
    \/ \E payload \in Payloads : A_ConnMedia(payload)
    \/ \E event \in OtherEvents : A_ConnOther(event)
    \/ A_ConnClose
    \/ A_InactivityTimer
    \/ A_EndCallTimer
    \/ P_AiOpen
    \/ P_SessionUpdateTimer
    \/ \E streamSid \in StreamSids : P_ConnStart(streamSid)
    \/ \E payload \in Payloads : P_ConnMedia(payload)
    \/ \E event \in OtherEvents : P_ConnOther(event)
    \/ P_ConnClose
    \/ AiClose
    \/ PipelineSettled
    \/ AdvanceToTimer

SpecTelephony == InitTelephony /\ [][NextTelephony]_vars

(* Messages the handlers cannot make sense of arrive on either socket, at   *)
(* any time, before and after a well-formed 'start'.                        *)

NextProtocol ==
    \/ A_AiOpen
    \/ A_SessionUpdateTimer
    \/ \E streamSid \in {"MZ1"} : A_ConnStart(streamSid)
    \/ \E msg \in TelephonyMalformed : A_ConnMalformed(msg)
    \/ \E msg \in SpeechMalformed : A_AiMalformed(msg)
    \/ A_ConnClose
    \/ A_InactivityTimer
    \/ A_EndCallTimer
    \/ P_AiOpen
    \/ P_SessionUpdateTimer
    \/ \E streamSid \in {"MZ1"} : P_ConnStart(streamSid)
    \/ \E msg \in TelephonyMalformed : P_ConnMalformed(msg)
    \/ P_ConnClose
    \/ AiClose
    \/ PipelineSettled
    \/ AdvanceToTimer

SpecProtocol == InitTelephony /\ [][NextProtocol]_vars

(* Claims about the telephony side *)

(* C25: streamSid is set exactly once.  It is null until the first 'start'  *)
(* event, takes that event's value, and never changes afterwards, whatever  *)
(* telephony events follow -- a repeated 'start' included.                  *)
C25_StreamSidSetOnce ==
    /\ [](starts = <<>> => session.streamSid = Null)
    /\ [](starts # <<>> => session.streamSid = starts[1])
    /\ [][session.streamSid # Null => session.streamSid' = session.streamSid]_vars

(* C29: unrecognised telephony events are inert.  Handling a telephony      *)
(* event that is neither 'start' nor 'media' ('stop', 'mark', 'connected')  *)
(* changes no session field and no timer, writes nothing to either socket,  *)
(* and starts no teardown: both sockets, the pipeline and the registry      *)
(* stay as they are.                                                        *)
C29_OtherEventsInert ==
    [][(odd' # odd /\ Last(odd') \in OtherEvents)
        => /\ session' = session
           /\ timers' = timers
           /\ sentAi' = sentAi
           /\ sentConn' = sentConn
           /\ openAiWs' = openAiWs
           /\ conn' = conn
           /\ pipeline' = pipeline
           /\ handed' = handed
           /\ sessions' = sessions]_vars

(* C29's case: an inbound 'stop' was handled while the watchdog was         *)
(* running; the call goes on and the watchdog is still the one the last     *)
(* caller-side event armed.                                                 *)
C29_Witness ==
    /\ variant = "A"
    /\ \E i \in 1..Len(odd) : odd[i] = "stop"
    /\ conn = "OPEN"
    /\ openAiWs = "OPEN"
    /\ pipeline = "idle"
    /\ \E t \in PendingWatchdogs :
          t.id = session.inactivityTimer /\ t.waited = sinceCaller /\ t.waited > 0

(* C23: protocol errors are dropped without side effects.  Handling a       *)
(* message that is no JSON, or that lacks a member its handler reads,       *)
(* changes no session field and no timer and writes nothing to either       *)
(* socket.                                                                  *)
C23_ProtocolErrorsDropped ==
    [][(odd' # odd /\ Last(odd') \in TelephonyMalformed \cup SpeechMalformed)
        => /\ session' = session
           /\ timers' = timers
           /\ sentAi' = sentAi
           /\ sentConn' = sentConn]_vars

----------------------------------------------------------------------------
(* The caller-audio relay of variants A and D: caller frames arrive while   *)
(* the speech socket connects, is open, or closes.                          *)

InitMedia == InitOf("A") \/ InitOf("D")

NextMedia ==
    \/ A_AiOpen
    \/ A_SessionUpdateTimer
    \/ \E payload \in CallerFrames : A_ConnMedia(payload)
    \/ A_ConnClose
    \/ A_InactivityTimer
    \/ A_EndCallTimer
    \/ D_AiOpen
    \/ D_SessionUpdateTimer
    \/ D_PingTimeout
    \/ \E payload \in CallerFrames : D_ConnMedia(payload)
    \/ D_Immediate
    \/ D_ConnClose
    \/ AiCloseFrame
    \/ AiClose
    \/ PipelineSettled
    \/ AdvanceToTimer

SpecMedia == InitMedia /\ [][NextMedia]_vars

(* The payloads of a sequence of messages or frames. *)
PayloadsOf(log) == [i \in 1..Len(log) |-> log[i].payload]

(* The audio appended to the speech session, in order. *)
Appended ==
    PayloadsOf(SelectSeq(sentAi, LAMBDA m : m.type = "input_audio_buffer.append"))

(* The frames handled while the speech socket was OPEN, in arrival order. *)
HandledOpen == PayloadsOf(SelectSeq(frames, LAMBDA f : f.open))

(* C30: caller-audio relay.  Every 'media' event handled while the speech   *)
(* socket is OPEN produces exactly one 'input_audio_buffer.append' with     *)
(* the same payload, in arrival order (a send that is still to run          *)
(* counts as produced); a 'media' event handled while the speech socket     *)
(* is not OPEN produces none, then or later; and in the variant with a      *)
(* watchdog every 'media' event re-arms it, forwarded or not.               *)
C30_CallerAudioRelay ==
    /\ [](Appended \o immediates = HandledOpen)
    /\ [][(frames' # frames /\ variant = "A")
            => \E t \in timers' :
                  /\ t.kind = "inactivity"
                  /\ t.id = session'.inactivityTimer
                  /\ t.remaining = INACTIVITY_TIMEOUT]_vars

----------------------------------------------------------------------------
(* Two telephony connections at a time, resolving to the same session id    *)
(* or to different ones; every event arrives within the first delay of     *)
(* any timer.                                                               *)

NextRegistry ==
    \/ A_AiOpen
    \/ \E transcript \in UserTexts : A_AiTranscriptionCompleted(transcript)
    \/ \E streamSid \in {"MZ1"} : A_ConnStart(streamSid)
    \/ A_ConnClose
    \/ B_AiOpen
    \/ \E transcript \in UserTexts : B_AiTranscriptionCompleted(transcript)
    \/ \E streamSid \in {"MZ1"} : B_ConnStart(streamSid)
    \/ B_ConnClose
    \/ P_AiOpen
    \/ \E transcript \in UserTexts : P_AiTranscriptionCompleted(transcript)
    \/ \E streamSid \in {"MZ1"} : P_ConnStart(streamSid)
    \/ P_ConnClose
    \/ PipelineSettled
    \/ \E id \in SessionIds : PeerAccept(id)
    \/ PeerAiOpen
    \/ \E streamSid \in {"MZ2"} : PeerStart(streamSid)
    \/ \E transcript \in {TextPeer} : PeerTranscriptionCompleted(transcript)
    \/ PeerClose
    \/ PeerCloseSettles

SpecRegistry == InitAll /\ [][NextRegistry]_vars

(* Is every record of the transcript t about the utterance `text`? *)
OnlyHeard(t, texts) == \A k \in 1..Len(t) : t[k].text \in texts

(* C22: session isolation.  With two connections at a time -- resolving to  *)
(* the same session id or not -- an event handled for one connection        *)
(* changes neither the session (transcript, streamSid, flags) nor the       *)
(* timers the other connection's handlers work on, and the transcript       *)
(* each connection hands to the extraction holds utterances of its own      *)
(* call only.                                                               *)
C22_SessionIsolation ==
    /\ [][peer' # peer => session' = session /\ timers' = timers]_vars
    /\ [][(peer.conn = "OPEN" /\ peer' = peer) => PeerSession' = PeerSession]_vars
    /\ [](\A i \in 1..Len(handed) :
              OnlyHeard(handed[i], {Trim(t) : t \in UserTexts}))
    /\ [](\A i \in 1..Len(peer.handed) :
              OnlyHeard(peer.handed[i], {Trim(TextPeer)}))

----------------------------------------------------------------------------
(* Turn taking under server-side voice-activity detection (variants B and   *)
(* P): the speech service reports the caller's speech starting and          *)
(* stopping.                                                                *)

InitTurns == InitOf("B") \/ InitOf("P")

NextTurns ==
    \/ B_AiOpen
    \/ B_OpenReadyTimer
    \/ B_GreetingTimer
    \/ \E transcript \in UserTexts : B_AiTranscriptionCompleted(transcript)
    \/ \E streamSid \in {"MZ1"} : B_ConnStart(streamSid)
    \/ B_ConnClose
    \/ P_AiOpen
    \/ P_SessionUpdateTimer
    \/ P_AiSpeechStarted
    \/ P_AiSpeechStopped
    \/ \E transcript \in UserTexts : P_AiTranscriptionCompleted(transcript)
    \/ \E delta \in {DeltaCanonical} : P_AiAudioDelta(delta)
    \/ \E streamSid \in {"MZ1"} : P_ConnStart(streamSid)
    \/ P_ConnClose
    \/ AiClose
    \/ AdvanceToTimer

SpecTurns == InitTurns /\ [][NextTurns]_vars

(* C17: automatic turn detection is not duplicated.  A session that has     *)
(* configured server-side voice-activity detection sends no                 *)
(* 'response.create' of its own for a caller turn: every 'response.create'  *)
(* it writes is a greeting or a closing instruction.                        *)
C17_NoDuplicateTurnRequest ==
    (\E i \in 1..Len(sentAi) :
        sentAi[i].type = "session.update" /\ sentAi[i].arg = "server_vad")
        => \A i \in 1..Len(sentAi) :
              sentAi[i].type = "response.create"
                  => sentAi[i].arg \in {"greeting", "farewell", "quiet"}

----------------------------------------------------------------------------
(* Claims about the records of the transcript *)

(* C31: one transcript record per utterance.  A caller-utterance-completed  *)
(* event appends exactly one caller record; a 'response.done' whose first   *)
(* output item has a content block with a transcript (one that is not       *)
(* blank) appends exactly one agent record; a 'response.done' that carries  *)
(* no transcript string appends nothing, so no placeholder text enters the  *)
(* transcript.                                                              *)
C31_OneRecordPerUtterance ==
    [][completions' # completions
        => LET c == Last(completions')
               one == /\ Len(session.transcript') = Len(session.transcript) + 1
                      /\ IsPrefix(session.transcript, session.transcript')
           IN  CASE c.speaker = "User" ->
                        one /\ Last(session.transcript').speaker = "User"
                 [] c.speaker # "User" /\ Trim(c.text) # NoText ->
                        one /\ Last(session.transcript').speaker # "User"
                 [] c.speaker # "User" /\ c.text = NoText ->
                        session.transcript' = session.transcript
                 [] OTHER -> TRUE]_vars

----------------------------------------------------------------------------
(* Claims about the closing sequence *)

(* The closing-utterance instructions written so far, on either socket. *)
ClosingInstructions ==
    Cardinality(FarewellLines) + Cardinality(QuietLines(sentAi))
        + Cardinality(QuietLines(sentConn))

(* The {event:'stop'} messages written to the telephony socket. *)
StopsSent == {i \in 1..Len(sentConn) : sentConn[i].type = "stop"}

(* C32: the closing sequence runs at most once per session.  Whatever       *)
(* farewell-matching 'response.done' events and watchdog expiries occur,    *)
(* the session has written at most one closing-utterance instruction and    *)
(* at most one 'stop' to the telephony socket.                              *)
C32_ClosingSequenceOnce ==
    /\ ClosingInstructions <= 1
    /\ Cardinality(StopsSent) <= 1

(* A hangup has been initiated: gracefulHangup or sendFarewell has run.     *)
(* Either leaves its instruction in a log or its hangup timer, and later    *)
(* the 'stop' of that timer.                                                *)
HangupInitiated ==
    \/ ClosingInstructions >= 1
    \/ \E t \in timers : t.kind = "endCall"
    \/ StopsSent # {}

(* C33: once a hangup has been initiated, no later caller-side event arms   *)
(* the inactivity watchdog again; so the watchdog fires at most once in a   *)
(* session and gracefulHangup runs at most once.                            *)
C33_NoRearmAfterHangup ==
    /\ [][HangupInitiated => PendingWatchdogs' \subseteq PendingWatchdogs]_vars
    /\ [][(\E t \in PendingWatchdogs \ PendingWatchdogs' : t.remaining = 0)
            => ~HangupInitiated]_vars
    /\ [](Cardinality(QuietLines(sentConn)) <= 1)

----------------------------------------------------------------------------
(* Claims about the ownership of registry entries *)

(* The session object registered under id: the first connection's object   *)
(* ("first"), the second connection's own ("own"), or none.                 *)
RegisteredObject(id) ==
    CASE id \notin sessions -> Null
      [] id \in sessions /\ peer.id = id -> peer.entry
      [] OTHER -> "first"

(* The session object the second connection's closure holds. *)
PeerObject == IF peer.shared THEN "first" ELSE "own"

(* C34: registry removal is owner-only.  While a connection is live its     *)
(* own session object is what the registry holds under its id -- never      *)
(* removed, never replaced by another connection's arrival or teardown,     *)
(* also when both connections resolve to the same id -- and the entry a     *)
(* close handler's sessions.delete removes is the one that connection       *)
(* inserted, not one a live connection still uses.                          *)
C34_OwnerOnlyRemoval ==
    /\ [](conn = "OPEN" => RegisteredObject(SessionId) = "first")
    /\ [](peer.conn = "OPEN" => RegisteredObject(peer.id) = PeerObject)
    /\ [][\A id \in sessions \ sessions' :
             IF pipeline' # pipeline
             THEN /\ id = SessionId
                  /\ RegisteredObject(id) = "first"
                  /\ ~(peer.conn = "OPEN" /\ peer.id = id)
             ELSE /\ id = peer.id
                  /\ RegisteredObject(id) = PeerObject
                  /\ ~(conn = "OPEN" /\ peer.id = SessionId)]_vars

----------------------------------------------------------------------------
(* Claims about the order of the teardown *)

----------------------------------------------------------------------------
(* The heartbeat of the fourth variant: the speech socket opens, pings and  *)
(* pongs arrive at any time, caller frames are relayed, either socket       *)
(* closes.                                                                  *)

(* Time passes by half a heartbeat period. *)
HeartbeatGap == HeartbeatTimeout \div 2

AdvanceBeat == timers # {} /\ Elapse(HeartbeatGap)

NextHeartbeat ==
    \/ D_AiOpen
    \/ D_SessionUpdateTimer
    \/ D_AiPing
    \/ D_PingTimeout
    \/ \E payload \in CallerFrames : D_ConnMedia(payload)
    \/ D_Immediate
    \/ D_ConnClose
    \/ AiCloseFrame
    \/ AiClose
    \/ PipelineSettled
    \/ AdvanceToTimer
    \/ AdvanceBeat

SpecHeartbeat == InitOf("D") /\ [][NextHeartbeat]_vars

PendingHeartbeats == {t \in timers : t.kind = "pingTimeout"}

(* C36: the heartbeat.  At most one heartbeat timer is pending, the one     *)
(* the session holds; the open of the speech socket and every ping or pong  *)
(* arm it afresh for 10 s and caller audio leaves it alone, so it falls     *)
(* due exactly 10 s after the last of them, and its callback terminates     *)
(* the speech socket; the telephony close clears it, and after that close   *)
(* no heartbeat timer is armed or fires.                                    *)
C36_Heartbeat ==
    /\ [](Cardinality(PendingHeartbeats) <= 1)
    /\ [](\A t \in PendingHeartbeats :
              /\ t.id = session.pingTimeout
              /\ t.remaining + t.waited = HeartbeatTimeout)
    /\ [][(\/ openAiWs = "CONNECTING" /\ openAiWs' = "OPEN"
           \/ session'.beats # session.beats)
            => \E t \in PendingHeartbeats' :
                  t.remaining = HeartbeatTimeout /\ t.waited = 0]_vars
    /\ [][frames' # frames => PendingHeartbeats' = PendingHeartbeats]_vars
    /\ [][(/\ PendingHeartbeats' = {} /\ PendingHeartbeats # {}
           /\ session' = session /\ conn' = conn)
            => /\ \A t \in PendingHeartbeats : t.waited = HeartbeatTimeout
               /\ openAiWs' \in {"CLOSING", "CLOSED"}]_vars
    /\ [][(conn = "OPEN" /\ conn' = "CLOSED") => PendingHeartbeats' = {}]_vars
    /\ [](conn = "CLOSED" => PendingHeartbeats = {})

----------------------------------------------------------------------------
(* Claims about the SDK variants *)

(* The handlers of the connections accepted so far, each with its socket. *)
HandlersS ==
    {[handler |-> session, socket |-> conn]}
        \cup (IF peer.conn = "NONE" THEN {}
              ELSE {[handler |-> peer.session, socket |-> peer.conn]})

(* C37: connect failures in the SDK variants.  An error thrown while the    *)
(* transport or the session is constructed, or a rejected session.connect,  *)
(* ends in the catch block: the error never leaves the handler, the         *)
(* handler closes its own telephony connection (once), and a step of one    *)
(* connection's handler changes nothing of the other connection.  A         *)
(* handler that is still running or whose connect succeeded has not         *)
(* closed its telephony connection.                                         *)
C37_ConnectFailureContained ==
    /\ [](\A c \in HandlersS :
            /\ c.handler.stage \in {"entered", "awaiting", "connected", "caught"}
            /\ c.handler.stage = "caught"
                  => /\ c.handler.caught \in {"transport", "session", "connect"}
                     /\ c.handler.closes = 1
                     /\ c.socket \in {"CLOSING", "CLOSED"}
            /\ c.handler.stage # "caught"
                  => /\ c.handler.closes = 0
                     /\ c.handler.caught = Null
            /\ c.handler.stage = "connected"
                  => c.handler.transport /\ c.handler.realtime)
    /\ [][(session' # session \/ conn' # conn) => peer' = peer]_vars
    /\ [][peer' # peer => session' = session /\ conn' = conn]_vars
    /\ [][(session.stage = "connected" /\ conn = "OPEN" /\ peer' # peer)
            => conn' = "OPEN"]_vars

(* C37's case: the first connection's session.connect was rejected and its  *)
(* telephony socket is closing, while the second connection's connect       *)
(* succeeded and its socket is open.                                        *)
C37_Witness ==
    /\ session.stage = "caught"
    /\ session.caught = "connect"
    /\ conn = "CLOSING"
    /\ peer.conn = "OPEN"
    /\ peer.session.stage = "connected"
    /\ peer.session.closes = 0

====
